---------------------------- MODULE Spec2Model ----------------------------
(***************************************************************************)
(* RespiroSync core engine (src/core/respirosync_core.cpp) as a state      *)
(* machine: the C API (respiro_start_session, respiro_feed_gyro,           *)
(* respiro_feed_accel, respiro_get_metrics) acting on engine handles.      *)
(*                                                                         *)
(* Numbers.  The engine computes in IEEE-754 binary32 (`float`).  TLC has  *)
(* 32-bit integers only, so a float is modelled as a decimal floating-     *)
(* point value <<m, e>> = m * 10^e with a four-digit mantissa              *)
(* (1000 <= |m| <= 9999, or <<0, 0>> for zero), round-to-nearest, the      *)
(* exponent range of binary32 (overflow to infinity above FLT_MAX =        *)
(* 3.402e38, flush to zero below 1e-45) and the three special values       *)
(* +inf, -inf and NaN with their IEEE arithmetic and comparison rules.     *)
(* Signed zeros are not distinguished.                                     *)
(*                                                                         *)
(* uint64_t timestamps are naturals below 2^31; the unsigned subtraction   *)
(* wraps modulo U64 (a stand-in for 2^64 that fits TLC's integers).        *)
(***************************************************************************)
EXTENDS Integers, Sequences, FiniteSets, TLC

(***************************************************************************)
(*                      float arithmetic (binary32)                        *)
(***************************************************************************)
Zero == <<0, 0>>
PInf == <<1, 100>>
NInf == <<-1, 100>>
NaN  == <<0, 100>>

IsNaN(a) == a = NaN
IsInf(a) == a = PInf \/ a = NInf
\* std::isfinite
isfinite(a) == ~IsNaN(a) /\ ~IsInf(a)

Abs(n) == IF n < 0 THEN -n ELSE n
Sgn(n) == IF n < 0 THEN -1 ELSE IF n > 0 THEN 1 ELSE 0
Pow10(k) == 10 ^ k

NumDigits(a) ==
    IF a < 10 THEN 1 ELSE IF a < 100 THEN 2 ELSE IF a < 1000 THEN 3
    ELSE IF a < 10000 THEN 4 ELSE IF a < 100000 THEN 5
    ELSE IF a < 1000000 THEN 6 ELSE IF a < 10000000 THEN 7
    ELSE IF a < 100000000 THEN 8 ELSE IF a < 1000000000 THEN 9 ELSE 10

\* the exponent range of binary32: overflow to +/-inf, underflow to zero
Range(m, e) ==
    IF e > 35 \/ (e = 35 /\ Abs(m) > 3402) THEN (IF m < 0 THEN NInf ELSE PInf)
    ELSE IF e < -48 THEN Zero
    ELSE <<m, e>>

\* a mantissa q of four digits, or 10000 after rounding up, with sign s
Carry(s, q, e) ==
    IF q = 10000 THEN Range(s * 1000, e + 1) ELSE Range(s * q, e)

\* drop the last k digits of m, rounding to nearest
Shrink(m, e, k) ==
    Carry(Sgn(m), (Abs(m) + (Pow10(k) \div 2)) \div Pow10(k), e + k)

\* m has d digits
Round(m, e, d) ==
    IF d > 4 THEN Shrink(m, e, d - 4)
    ELSE Range(m * Pow10(4 - d), e - (4 - d))

\* round m * 10^e to a four-digit mantissa (round to nearest)
Normalise(m, e) ==
    IF m = 0 THEN Zero ELSE Round(m, e, NumDigits(Abs(m)))

\* a float literal m * 10^e, and the conversion of an integer to float
Lit(m, e) == Normalise(m, e)
FromInt(n) == Normalise(n, 0)

fneg(a) == IF IsNaN(a) THEN NaN ELSE <<-a[1], a[2]>>
\* std::fabs
fabs(a) == IF IsNaN(a) THEN NaN ELSE <<Abs(a[1]), a[2]>>

\* a + b on finite non-zero operands whose exponents differ by d
AddAligned(a, b, d) ==
    IF d > 5 THEN a
    ELSE IF d < -5 THEN b
    ELSE Normalise(IF d >= 0 THEN a[1] * Pow10(d) + b[1] ELSE a[1] + b[1] * Pow10(-d),
                   IF d >= 0 THEN b[2] ELSE a[2])

fadd(a, b) ==
    IF IsNaN(a) \/ IsNaN(b) THEN NaN
    ELSE IF IsInf(a) THEN (IF IsInf(b) /\ a # b THEN NaN ELSE a)
    ELSE IF IsInf(b) THEN b
    ELSE IF a[1] = 0 THEN b
    ELSE IF b[1] = 0 THEN a
    ELSE AddAligned(a, b, a[2] - b[2])

fsub(a, b) == fadd(a, fneg(b))

fmul(a, b) ==
    IF IsNaN(a) \/ IsNaN(b) THEN NaN
    ELSE IF IsInf(a) \/ IsInf(b)
         THEN (IF a[1] = 0 \/ b[1] = 0 THEN NaN
               ELSE IF Sgn(a[1]) = Sgn(b[1]) THEN PInf ELSE NInf)
    ELSE IF a[1] = 0 \/ b[1] = 0 THEN Zero
    ELSE Normalise(a[1] * b[1], a[2] + b[2])

fdiv(a, b) ==
    IF IsNaN(a) \/ IsNaN(b) THEN NaN
    ELSE IF IsInf(a)
         THEN (IF IsInf(b) THEN NaN
               ELSE IF (a[1] > 0) = (b[1] >= 0) THEN PInf ELSE NInf)
    ELSE IF IsInf(b) THEN Zero
    ELSE IF b[1] = 0
         THEN (IF a[1] = 0 THEN NaN ELSE IF a[1] > 0 THEN PInf ELSE NInf)
    ELSE IF a[1] = 0 THEN Zero
    ELSE Normalise(Sgn(a[1]) * Sgn(b[1]) * ((Abs(a[1]) * Pow10(5)) \div Abs(b[1])),
                   a[2] - b[2] - 5)

\* a < b on floats: false when either operand is NaN
flt(a, b) ==
    IF IsNaN(a) \/ IsNaN(b) THEN FALSE
    ELSE IF a = b THEN FALSE
    ELSE IF a = NInf \/ b = PInf THEN TRUE
    ELSE IF a = PInf \/ b = NInf THEN FALSE
    ELSE IF a[1] = 0 THEN b[1] > 0
    ELSE IF b[1] = 0 THEN a[1] < 0
    ELSE IF a[1] < 0 /\ b[1] > 0 THEN TRUE
    ELSE IF a[1] > 0 /\ b[1] < 0 THEN FALSE
    ELSE IF a[1] > 0 THEN a[2] < b[2] \/ (a[2] = b[2] /\ a[1] < b[1])
    ELSE a[2] > b[2] \/ (a[2] = b[2] /\ a[1] < b[1])

fgt(a, b) == flt(b, a)
\* a >= b and a <= b on floats: false when either operand is NaN
fge(a, b) == ~IsNaN(a) /\ ~IsNaN(b) /\ ~flt(a, b)
fle(a, b) == ~IsNaN(a) /\ ~IsNaN(b) /\ ~flt(b, a)

\* std::max(a, b) is (a < b) ? b : a;  std::min(a, b) is (b < a) ? b : a
fmax(a, b) == IF flt(a, b) THEN b ELSE a
fmin(a, b) == IF flt(b, a) THEN b ELSE a

\* one step of Newton's iteration for the integer square root of n
NewtonStep(n, x) == (x + n \div x) \div 2

RECURSIVE Newton(_, _)
Newton(n, x) ==
    IF NewtonStep(n, x) >= x THEN x ELSE Newton(n, NewtonStep(n, x))

\* floor of the square root of n, 0 < n < 2^31
ISqrt(n) == Newton(n, 46340)

\* std::sqrt
fsqrt(a) ==
    IF IsNaN(a) \/ a = NInf THEN NaN
    ELSE IF a = PInf THEN PInf
    ELSE IF a[1] < 0 THEN NaN
    ELSE IF a[1] = 0 THEN Zero
    ELSE Normalise(ISqrt(a[1] * (IF a[2] % 2 = 0 THEN 10000 ELSE 100000)),
                   (a[2] - (IF a[2] % 2 = 0 THEN 4 ELSE 5)) \div 2)

PI == Lit(3142, -3)
HALF_PI == Lit(1571, -3)

\* the arctangent of r in [0, 1]: r * (pi/4 + 0.273 * (1 - r)), which is
\* within 0.004 rad of the true value
ArcTan01(r) == fmul(r, fsub(Lit(1058, -3), fmul(Lit(2730, -4), r)))

\* the arctangent of ay / ax for ax, ay >= 0, not both zero
Octant(ay, ax) ==
    IF flt(ax, ay) THEN fsub(HALF_PI, ArcTan01(fdiv(ax, ay)))
    ELSE ArcTan01(fdiv(ay, ax))

\* the angle a of (|x|, |y|) reflected into the quadrant of (x, y)
Quadrant(y, x, a) ==
    IF x[1] < 0 THEN (IF y[1] < 0 THEN fneg(fsub(PI, a)) ELSE fsub(PI, a))
    ELSE (IF y[1] < 0 THEN fneg(a) ELSE a)

\* std::atan2(y, x) into [-pi, pi]
atan2(y, x) ==
    IF IsNaN(y) \/ IsNaN(x) THEN NaN
    ELSE IF IsInf(y) /\ IsInf(x)
         THEN (IF x = PInf
               THEN (IF y = PInf THEN Lit(7854, -4) ELSE Lit(-7854, -4))
               ELSE (IF y = PInf THEN Lit(2356, -3) ELSE Lit(-2356, -3)))
    ELSE IF IsInf(y) THEN (IF y = PInf THEN HALF_PI ELSE fneg(HALF_PI))
    ELSE IF IsInf(x)
         THEN (IF x = PInf THEN Zero ELSE IF y[1] < 0 THEN fneg(PI) ELSE PI)
    ELSE IF x[1] = 0 /\ y[1] = 0 THEN Zero
    ELSE Quadrant(y, x, Octant(fabs(y), fabs(x)))


(***************************************************************************)
(*                         uint64_t timestamps                             *)
(***************************************************************************)
\* stand-in for 2^64: unsigned subtraction wraps modulo U64
U64 == 2 ^ 30
USub(a, b) == (a - b) % U64

(***************************************************************************)
(*              enumerations of respirosync_core.h                         *)
(***************************************************************************)
AWAKE == 0
LIGHT_SLEEP == 1
DEEP_SLEEP == 2
REM_SLEEP == 3
UNKNOWN == 4

SIGNAL_QUALITY_EXCELLENT == 0
SIGNAL_QUALITY_GOOD == 1
SIGNAL_QUALITY_FAIR == 2
SIGNAL_QUALITY_POOR == 3
SIGNAL_QUALITY_UNKNOWN == 4

\* the null handle (nullptr)
NULL == 0

\* a float array of n zeros (the zero-filling loops of the constructors and resets)
RECURSIVE Zeros(_)
Zeros(n) ==
    IF n = 0 THEN <<>>
    ELSE IF n % 2 = 0 THEN LET half == Zeros(n \div 2) IN half \o half
    ELSE Append(Zeros(n - 1), Zero)

(***************************************************************************)
(*                          ButterworthFilter                              *)
(***************************************************************************)
b0 == Lit(201, -4)
b1 == Zero
b2 == Lit(-201, -4)
a1 == Lit(-1561, -3)
a2 == Lit(6414, -4)

\* ButterworthFilter() and ButterworthFilter::reset()
FilterReset == [x1 |-> Zero, x2 |-> Zero, y1 |-> Zero, y2 |-> Zero]

\* the difference equation of ButterworthFilter::process
FilterOutput(f, input) ==
    fsub(fsub(fadd(fadd(fmul(b0, input), fmul(b1, f.x1)), fmul(b2, f.x2)),
              fmul(a1, f.y1)),
         fmul(a2, f.y2))

\* ButterworthFilter::process: the advanced delay registers; the value
\* returned is the output, which is the new y1
FilterProcess(f, input) ==
    [x1 |-> input, x2 |-> f.x1, y1 |-> FilterOutput(f, input), y2 |-> f.y1]

(***************************************************************************)
(*                         PhaseMemoryOperator                             *)
(***************************************************************************)
DEFAULT_ALPHA == Lit(2, 0)
MEMORY_SAMPLES == 150
BASELINE_SAMPLES == 250
OMEGA_0 == fmul(fmul(Lit(2, 0), Lit(3142, -3)), Lit(3, -1))
DT == fdiv(Lit(1, 0), Lit(50, 0))
TWO_PI == fmul(Lit(2, 0), Lit(3142, -3))
SIGMA_FLOOR == Lit(1, -4)

\* PhaseMemoryOperator::reset
PhaseMemoryReset ==
    [prev_x |-> Zero, prev_theta |-> Zero, initialized |-> FALSE,
     omega_buf |-> Zeros(MEMORY_SAMPLES),
     omega_idx |-> 0, omega_sum |-> Zero, omega_count |-> 0,
     baseline_buf |-> Zeros(BASELINE_SAMPLES),
     baseline_count |-> 0, baseline_ready |-> FALSE,
     sigma_omega |-> Lit(1, 0), delta_phi |-> Zero]

\* PhaseMemoryOperator::unwrapDelta: the two while loops
RECURSIVE UnwrapDown(_)
UnwrapDown(d) == IF fgt(d, PI) THEN UnwrapDown(fsub(d, TWO_PI)) ELSE d
RECURSIVE UnwrapUp(_)
UnwrapUp(d) == IF flt(d, fneg(PI)) THEN UnwrapUp(fadd(d, TWO_PI)) ELSE d
unwrapDelta(d) == UnwrapUp(UnwrapDown(d))

\* a for loop over k = lo..hi that threads an accumulator:
\* acc += term[k] (sign = 1) or acc -= term[k] (sign = -1).  The steps run
\* in index order; the range is halved only to keep TLC's evaluation shallow.
FoldRange(term, sign, lo, hi, acc0) ==
    LET F[a \in Nat \X Nat \X (Int \X Int)] ==
            IF a[1] > a[2] THEN a[3]
            ELSE IF a[1] = a[2]
                 THEN (IF sign = 1 THEN fadd(a[3], term[a[1]]) ELSE fsub(a[3], term[a[1]]))
            ELSE F[<<((a[1] + a[2]) \div 2) + 1, a[2],
                     F[<<a[1], (a[1] + a[2]) \div 2, a[3]>>]>>]
    IN  F[<<lo, hi, acc0>>]

\* acc + buf[i] + ... + buf[n], added left to right as the for loops do
SumFrom(buf, i, n, acc) == FoldRange(buf, 1, i, n, acc)

\* acc - buf[i] - ... - buf[n], subtracted left to right
SubFrom(buf, i, n, acc) == FoldRange(buf, -1, i, n, acc)

\* acc - buf[i]^2 - ... - buf[n]^2, subtracted left to right
SubSqFrom(buf, i, n, acc) ==
    FoldRange([k \in i..n |-> fmul(buf[k], buf[k])], -1, i, n, acc)

\* acc + (buf[i] - mean)^2 + ... + (buf[n] - mean)^2, added left to right
SumSqDiff(buf, i, n, mean, acc) ==
    FoldRange([k \in i..n |-> LET diff == fsub(buf[k], mean) IN fmul(diff, diff)],
              1, i, n, acc)

\* if (sigma_omega < 1e-4f) sigma_omega = 1e-4f
FloorSigma(sigma) == IF flt(sigma, SIGMA_FLOOR) THEN SIGMA_FLOOR ELSE sigma

\* the calibration block of update: sigma_omega over the baseline window
BaselineSigma(buf) ==
    FloorSigma(fsqrt(fdiv(
        SumSqDiff(buf, 1, BASELINE_SAMPLES,
                  fdiv(SumFrom(buf, 1, BASELINE_SAMPLES, Zero), FromInt(BASELINE_SAMPLES)),
                  Zero),
        FromInt(BASELINE_SAMPLES))))

\* a calibration that fires one sample late
PhaseCalibrate_m(pm, buf) ==
    IF pm.baseline_ready THEN pm
    ELSE [pm EXCEPT !.baseline_buf = buf,
                    !.baseline_count = @ + 1,
                    !.baseline_ready = pm.baseline_count + 1 > BASELINE_SAMPLES,
                    !.sigma_omega = IF pm.baseline_count + 1 > BASELINE_SAMPLES
                                    THEN BaselineSigma(buf) ELSE @]

\* update, baseline calibration: buf is baseline_buf with omega stored
PhaseCalibrate(pm, buf) ==
    IF pm.baseline_ready THEN pm
    ELSE [pm EXCEPT !.baseline_buf = buf,
                    !.baseline_count = @ + 1,
                    !.baseline_ready = pm.baseline_count + 1 >= BASELINE_SAMPLES,
                    !.sigma_omega = IF pm.baseline_count + 1 >= BASELINE_SAMPLES
                                    THEN BaselineSigma(buf) ELSE @]

\* update, the instability metric from the rolling sum and count that
\* already include omega
PhaseMetric(pm, omega, omega_sum, omega_count) ==
    PhaseCalibrate(
        [pm EXCEPT !.omega_buf[pm.omega_idx + 1] = omega,
                   !.omega_idx = (pm.omega_idx + 1) % MEMORY_SAMPLES,
                   !.omega_sum = omega_sum,
                   !.omega_count = omega_count,
                   !.delta_phi = fabs(fsub(omega,
                                      IF omega_count > 0
                                      THEN fdiv(omega_sum, FromInt(omega_count))
                                      ELSE omega))],
        [pm.baseline_buf EXCEPT ![pm.baseline_count + 1] = omega])

\* a rolling sum that never subtracts the outgoing slot
PhaseMemory_m(pm, omega) ==
    PhaseMetric(pm, omega,
                fadd(pm.omega_sum, omega),
                IF pm.omega_count < MEMORY_SAMPLES
                THEN pm.omega_count + 1 ELSE pm.omega_count)

\* update, the short-term phase memory (rolling mean of omega)
PhaseMemory(pm, omega) ==
    PhaseMetric(pm, omega,
                fadd(pm.omega_sum, fsub(omega, pm.omega_buf[pm.omega_idx + 1])),
                IF pm.omega_count < MEMORY_SAMPLES
                THEN pm.omega_count + 1 ELSE pm.omega_count)

\* update, the instantaneous phase velocity from the new phase theta
PhaseVelocity(pm, x, theta) ==
    PhaseMemory([pm EXCEPT !.prev_x = x, !.prev_theta = theta],
                fdiv(unwrapDelta(fsub(theta, pm.prev_theta)), DT))

\* an update without the bootstrap step
PhaseMemoryUpdate_m(pm, x) ==
    PhaseVelocity([pm EXCEPT !.initialized = TRUE], x,
        atan2(fdiv(fneg(fsub(x, pm.prev_x)), fmul(OMEGA_0, DT)), x))

\* PhaseMemoryOperator::update(x)
PhaseMemoryUpdate(pm, x) ==
    IF ~pm.initialized
    THEN [pm EXCEPT !.prev_x = x, !.prev_theta = Zero, !.initialized = TRUE]
    ELSE PhaseVelocity(pm, x,
             atan2(fdiv(fneg(fsub(x, pm.prev_x)), fmul(OMEGA_0, DT)), x))

\* PhaseMemoryOperator::instabilityScore
instabilityScore(pm) == pm.delta_phi

\* the decision without the baseline_ready gate
instabilityDetected_m(pm) ==
    fgt(pm.delta_phi, fmul(DEFAULT_ALPHA, pm.sigma_omega))

\* the decision with the sensitivity alpha left out
instabilityDetected_m2(pm) ==
    pm.baseline_ready /\ fgt(pm.delta_phi, pm.sigma_omega)

\* PhaseMemoryOperator::instabilityDetected(alpha = DEFAULT_ALPHA)
instabilityDetected(pm) ==
    pm.baseline_ready /\ fgt(pm.delta_phi, fmul(DEFAULT_ALPHA, pm.sigma_omega))

(***************************************************************************)
(*                             RespiroEngine                               *)
(***************************************************************************)
BUFFER_SIZE == 256
PEAK_THRESHOLD_MULTIPLIER == Lit(6, -1)
APNEA_THRESHOLD_MS == 10000
EPSILON == Lit(1, -6)
MIN_STDDEV == Lit(1, -6)
GRAVITY == Lit(981, -2)

\* the constructor with current_bpm missing from the initialiser list
RespiroEngine_m(raw) ==
    [gyro_buffer |-> <<>>, accel_buffer |-> <<>>, breath_history |-> <<>>,
     accel_magnitude_buffer |-> <<>>,
     breathing_filter |-> FilterReset,
     breathing_signal_buffer |-> Zeros(BUFFER_SIZE),
     breathing_signal_sum |-> Zero, breathing_signal_sum_squares |-> Zero,
     buffer_index |-> 0,
     phase_memory |-> PhaseMemoryReset,
     last_peak_time |-> 0, last_peak_value |-> Zero, in_peak |-> FALSE,
     peak_threshold |-> Lit(1, -1),
     current_bpm |-> raw, current_stage |-> UNKNOWN,
     movement_variance |-> Zero, gravity_estimate |-> GRAVITY,
     session_start_time |-> 0, last_breath_time |-> 0,
     accel_magnitude_sum |-> Zero, accel_magnitude_sum_squares |-> Zero]

\* RespiroEngine::RespiroEngine(): every member is initialised, so the
\* uninitialised storage `raw` the object is built in does not show
RespiroEngine(raw) ==
    [gyro_buffer |-> <<>>, accel_buffer |-> <<>>, breath_history |-> <<>>,
     accel_magnitude_buffer |-> <<>>,
     breathing_filter |-> FilterReset,
     breathing_signal_buffer |-> Zeros(BUFFER_SIZE),
     breathing_signal_sum |-> Zero, breathing_signal_sum_squares |-> Zero,
     buffer_index |-> 0,
     phase_memory |-> PhaseMemoryReset,
     last_peak_time |-> 0, last_peak_value |-> Zero, in_peak |-> FALSE,
     peak_threshold |-> Lit(1, -1),
     current_bpm |-> Zero, current_stage |-> UNKNOWN,
     movement_variance |-> Zero, gravity_estimate |-> GRAVITY,
     session_start_time |-> 0, last_breath_time |-> 0,
     accel_magnitude_sum |-> Zero, accel_magnitude_sum_squares |-> Zero]

\* RespiroEngine::magnitude
magnitude(s) == fsqrt(fadd(fadd(fmul(s.x, s.x), fmul(s.y, s.y)), fmul(s.z, s.z)))

\* startSession without the reset of the band-pass ring's write index
startSession_m2(e, timestamp_ms) ==
    [e EXCEPT !.session_start_time = timestamp_ms,
              !.breath_history = <<>>,
              !.breathing_filter = FilterReset,
              !.phase_memory = PhaseMemoryReset,
              !.current_stage = UNKNOWN,
              !.current_bpm = Zero,
              !.movement_variance = Zero,
              !.gravity_estimate = GRAVITY,
              !.last_peak_time = 0,
              !.last_peak_value = Zero,
              !.last_breath_time = 0,
              !.in_peak = FALSE,
              !.peak_threshold = Lit(1, -1),
              !.accel_magnitude_sum = Zero,
              !.accel_magnitude_sum_squares = Zero,
              !.accel_magnitude_buffer = <<>>,
              !.breathing_signal_buffer = Zeros(BUFFER_SIZE),
              !.breathing_signal_sum = Zero,
              !.breathing_signal_sum_squares = Zero]

\* startSession without the reset of current_bpm
startSession_m(e, timestamp_ms) ==
    [e EXCEPT !.session_start_time = timestamp_ms,
              !.breath_history = <<>>,
              !.breathing_filter = FilterReset,
              !.phase_memory = PhaseMemoryReset,
              !.buffer_index = 0,
              !.current_stage = UNKNOWN,
              !.movement_variance = Zero,
              !.gravity_estimate = GRAVITY,
              !.last_peak_time = 0,
              !.last_peak_value = Zero,
              !.last_breath_time = 0,
              !.in_peak = FALSE,
              !.peak_threshold = Lit(1, -1),
              !.accel_magnitude_sum = Zero,
              !.accel_magnitude_sum_squares = Zero,
              !.accel_magnitude_buffer = <<>>,
              !.breathing_signal_buffer = Zeros(BUFFER_SIZE),
              !.breathing_signal_sum = Zero,
              !.breathing_signal_sum_squares = Zero]

\* RespiroEngine::startSession
startSession(e, timestamp_ms) ==
    [e EXCEPT !.session_start_time = timestamp_ms,
              !.breath_history = <<>>,
              !.breathing_filter = FilterReset,
              !.phase_memory = PhaseMemoryReset,
              !.buffer_index = 0,
              !.current_stage = UNKNOWN,
              !.current_bpm = Zero,
              !.movement_variance = Zero,
              !.gravity_estimate = GRAVITY,
              !.last_peak_time = 0,
              !.last_peak_value = Zero,
              !.last_breath_time = 0,
              !.in_peak = FALSE,
              !.peak_threshold = Lit(1, -1),
              !.accel_magnitude_sum = Zero,
              !.accel_magnitude_sum_squares = Zero,
              !.accel_magnitude_buffer = <<>>,
              !.breathing_signal_buffer = Zeros(BUFFER_SIZE),
              !.breathing_signal_sum = Zero,
              !.breathing_signal_sum_squares = Zero]

\* how many front entries a trimming loop
\*   while (!buf.empty() && timestamp - buf.front().timestamp_ms > limit) pop_front
\* removes: the entries before the first one that is not too old
Expired(buf, timestamp, limit) ==
    LET keep == {j \in 1..Len(buf) : ~(USub(timestamp, buf[j].timestamp_ms) > limit)}
    IN  IF keep = {} THEN Len(buf)
        ELSE (CHOOSE j \in keep : \A k \in keep : j <= k) - 1

DropFront(buf, k) == SubSeq(buf, k + 1, Len(buf))

\* the "keep only last 5 seconds" loop of feedGyroscope
TrimGyro(buf, timestamp_ms) == DropFront(buf, Expired(buf, timestamp_ms, 5000))

\* a feed that also takes the rotation as movement
feedGyroscope_m(e, x, y, z, timestamp_ms) ==
    [e EXCEPT !.gyro_buffer =
        TrimGyro(Append(e.gyro_buffer,
                        [x |-> x, y |-> y, z |-> z, timestamp_ms |-> timestamp_ms]),
                 timestamp_ms),
              !.movement_variance = magnitude([x |-> x, y |-> y, z |-> z])]

\* RespiroEngine::feedGyroscope
feedGyroscope(e, x, y, z, timestamp_ms) ==
    [e EXCEPT !.gyro_buffer =
        TrimGyro(Append(e.gyro_buffer,
                        [x |-> x, y |-> y, z |-> z, timestamp_ms |-> timestamp_ms]),
                 timestamp_ms)]

\* a trimming loop that leaves the squares of the outgoing magnitudes in the
\* sum of squares
TrimAccel_m(w, timestamp_ms) ==
    LET k == Expired(w.ab, timestamp_ms, 5000)
        p == IF k < Len(w.mb) THEN k ELSE Len(w.mb)
    IN  [ab  |-> DropFront(w.ab, k),
         mb  |-> DropFront(w.mb, p),
         sum |-> SubFrom(w.mb, 1, p, w.sum),
         sq  |-> w.sq]

\* the "keep only last 5 seconds" loop of feedAccelerometer on
\* w = [ab: accel_buffer, mb: accel_magnitude_buffer, sum, sq]: every pass
\* pops accel_buffer, and pops accel_magnitude_buffer (subtracting the
\* outgoing magnitude from the aggregates) only while it is not empty
TrimAccel(w, timestamp_ms) ==
    LET k == Expired(w.ab, timestamp_ms, 5000)
        p == IF k < Len(w.mb) THEN k ELSE Len(w.mb)
    IN  [ab  |-> DropFront(w.ab, k),
         mb  |-> DropFront(w.mb, p),
         sum |-> SubFrom(w.mb, 1, p, w.sum),
         sq  |-> SubSqFrom(w.mb, 1, p, w.sq)]

\* the estimate decayed without the share of the new magnitude
GravityUpdate_m(g, mag) == fmul(Lit(8, -1), g)

\* RespiroEngine::removeGravity: the updated gravity estimate
GravityUpdate(g, mag) == fadd(fmul(Lit(8, -1), g), fmul(fsub(Lit(1, 0), Lit(8, -1)), mag))

\* a trimming loop that does not stop at the cycle just stored
TrimBreaths_m(h, timestamp) == DropFront(h, Len(h))

\* the "keep only last 60 seconds of breaths" loop
TrimBreaths(h, timestamp) == DropFront(h, Expired(h, timestamp, 60000))

\* the peak state machine registering a peak whatever state it is in
PeakDecide_m(e1, signal, timestamp, stddev, valid) ==
    IF fgt(signal, e1.peak_threshold)
    THEN [e1 EXCEPT !.in_peak = TRUE,
                    !.breath_history =
                        IF valid
                        THEN TrimBreaths(
                                 Append(@, [timestamp_ms |-> timestamp,
                                            duration_ms |->
                                                FromInt(timestamp - e1.last_peak_time),
                                            amplitude |-> fdiv(signal, stddev)]),
                                 timestamp)
                        ELSE @,
                    !.last_breath_time = IF valid THEN timestamp ELSE @,
                    !.last_peak_time = timestamp,
                    !.last_peak_value = signal]
    ELSE IF e1.in_peak
            /\ flt(signal, fsub(fmul(e1.peak_threshold, Lit(8, -1)), EPSILON))
    THEN [e1 EXCEPT !.in_peak = FALSE]
    ELSE e1

\* the peak state machine recording the peak's time and value only when it
\* stores a cycle
PeakDecide_m2(e1, signal, timestamp, stddev, valid) ==
    IF ~e1.in_peak /\ fgt(signal, e1.peak_threshold)
    THEN [e1 EXCEPT !.in_peak = TRUE,
                    !.breath_history =
                        IF valid
                        THEN TrimBreaths(
                                 Append(@, [timestamp_ms |-> timestamp,
                                            duration_ms |->
                                                FromInt(timestamp - e1.last_peak_time),
                                            amplitude |-> fdiv(signal, stddev)]),
                                 timestamp)
                        ELSE @,
                    !.last_breath_time = IF valid THEN timestamp ELSE @,
                    !.last_peak_time = IF valid THEN timestamp ELSE @,
                    !.last_peak_value = IF valid THEN signal ELSE @]
    ELSE IF e1.in_peak
            /\ flt(signal, fsub(fmul(e1.peak_threshold, Lit(8, -1)), EPSILON))
    THEN [e1 EXCEPT !.in_peak = FALSE]
    ELSE e1

\* the peak state machine taking every peak for a breath
PeakDecide_m3(e1, signal, timestamp, stddev, valid) ==
    IF ~e1.in_peak /\ fgt(signal, e1.peak_threshold)
    THEN [e1 EXCEPT !.in_peak = TRUE,
                    !.breath_history =
                        IF valid
                        THEN TrimBreaths(
                                 Append(@, [timestamp_ms |-> timestamp,
                                            duration_ms |->
                                                FromInt(timestamp - e1.last_peak_time),
                                            amplitude |-> fdiv(signal, stddev)]),
                                 timestamp)
                        ELSE @,
                    !.last_breath_time = timestamp,
                    !.last_peak_time = timestamp,
                    !.last_peak_value = signal]
    ELSE IF e1.in_peak
            /\ flt(signal, fsub(fmul(e1.peak_threshold, Lit(8, -1)), EPSILON))
    THEN [e1 EXCEPT !.in_peak = FALSE]
    ELSE e1

\* detectBreathingPeaks, the peak state machine on the engine e1 whose
\* rolling statistics already hold the signal
PeakDecide(e1, signal, timestamp, stddev, valid) ==
    IF ~e1.in_peak /\ fgt(signal, e1.peak_threshold)
    THEN [e1 EXCEPT !.in_peak = TRUE,
                    !.breath_history =
                        IF valid
                        THEN TrimBreaths(
                                 Append(@, [timestamp_ms |-> timestamp,
                                            duration_ms |->
                                                FromInt(timestamp - e1.last_peak_time),
                                            amplitude |-> fdiv(signal, stddev)]),
                                 timestamp)
                        ELSE @,
                    !.last_breath_time = IF valid THEN timestamp ELSE @,
                    !.last_peak_time = timestamp,
                    !.last_peak_value = signal]
    ELSE IF e1.in_peak
            /\ flt(signal, fsub(fmul(e1.peak_threshold, Lit(8, -1)), EPSILON))
    THEN [e1 EXCEPT !.in_peak = FALSE]
    ELSE e1

\* the threshold step accepting a cycle of any length above 500 ms
PeakThreshold_m(e, signal, timestamp, idx, sum, sumsq, mean, stddev) ==
    PeakDecide([e EXCEPT !.breathing_signal_buffer[idx + 1] = signal,
                         !.breathing_signal_sum = sum,
                         !.breathing_signal_sum_squares = sumsq,
                         !.buffer_index = (idx + 1) % BUFFER_SIZE,
                         !.peak_threshold =
                             fadd(mean, fmul(stddev, PEAK_THRESHOLD_MULTIPLIER))],
               signal, timestamp, stddev,
               /\ e.last_peak_time > 0
               /\ timestamp >= e.last_peak_time
               /\ timestamp - e.last_peak_time > 500)

\* detectBreathingPeaks, the adaptive threshold from the rolling statistics
PeakThreshold(e, signal, timestamp, idx, sum, sumsq, mean, stddev) ==
    PeakDecide([e EXCEPT !.breathing_signal_buffer[idx + 1] = signal,
                         !.breathing_signal_sum = sum,
                         !.breathing_signal_sum_squares = sumsq,
                         !.buffer_index = (idx + 1) % BUFFER_SIZE,
                         !.peak_threshold =
                             fadd(mean, fmul(stddev, PEAK_THRESHOLD_MULTIPLIER))],
               signal, timestamp, stddev,
               /\ e.last_peak_time > 0
               /\ timestamp >= e.last_peak_time
               /\ timestamp - e.last_peak_time > 500
               /\ timestamp - e.last_peak_time < 6000)

\* detectBreathingPeaks, mean and standard deviation of the window
PeakDeviation(e, signal, timestamp, idx, sum, sumsq, mean) ==
    PeakThreshold(e, signal, timestamp, idx, sum, sumsq, mean,
        fmax(MIN_STDDEV,
             fsqrt(fmax(Zero, fsub(fdiv(sumsq, FromInt(BUFFER_SIZE)),
                                   fmul(mean, mean))))))

\* detectBreathingPeaks, the rolling sums after the sample at idx is replaced
PeakStatistics(e, signal, timestamp, idx, sum, sumsq) ==
    PeakDeviation(e, signal, timestamp, idx, sum, sumsq,
                  fdiv(sum, FromInt(BUFFER_SIZE)))

\* rolling sums that never subtract the outgoing slot
PeakWindow_m(e, signal, timestamp, idx) ==
    PeakStatistics(e, signal, timestamp, idx,
        fadd(e.breathing_signal_sum, signal),
        fadd(e.breathing_signal_sum_squares, fmul(signal, signal)))

\* detectBreathingPeaks, with idx the bounds-checked buffer_index
PeakWindow(e, signal, timestamp, idx) ==
    PeakStatistics(e, signal, timestamp, idx,
        fadd(e.breathing_signal_sum,
             fsub(signal, e.breathing_signal_buffer[idx + 1])),
        fadd(e.breathing_signal_sum_squares,
             fsub(fmul(signal, signal),
                  fmul(e.breathing_signal_buffer[idx + 1],
                       e.breathing_signal_buffer[idx + 1]))))

\* RespiroEngine::detectBreathingPeaks
detectBreathingPeaks(e, signal, timestamp) ==
    PeakWindow(e, signal, timestamp,
               IF e.buffer_index < 0 \/ e.buffer_index >= BUFFER_SIZE
               THEN 0 ELSE e.buffer_index)

\* the reverse iteration of calculateBreathingRate: how many of the newest
\* cycles are visited before the loop breaks at a cycle that is later than
\* now or more than 30 s before it
RecentCount(h, now) ==
    LET stop == {j \in 1..Len(h) :
                    h[j].timestamp_ms > now \/ now - h[j].timestamp_ms > 30000}
    IN  IF stop = {} THEN Len(h)
        ELSE Len(h) - (CHOOSE j \in stop : \A k \in stop : k <= j)

\* the rate with the minute taken as 60 ms
RateOf_m(avg_duration_ms) ==
    IF flt(avg_duration_ms, EPSILON) THEN Zero
    ELSE fdiv(Lit(60, 0), avg_duration_ms)

\* calculateBreathingRate, the rate from the average duration
RateOf(avg_duration_ms) ==
    IF flt(avg_duration_ms, EPSILON) THEN Zero
    ELSE fdiv(Lit(60000, 0), avg_duration_ms)

\* calculateBreathingRate, over the c newest cycles of h
RecentRate(h, c) ==
    IF c = 0 THEN Zero
    ELSE RateOf(fdiv(SumFrom([k \in 1..c |-> h[Len(h) + 1 - k].duration_ms],
                             1, c, Zero),
                     FromInt(c)))

\* RespiroEngine::calculateBreathingRate
calculateBreathingRate(h) ==
    IF Len(h) < 3 THEN Zero
    ELSE RecentRate(h, RecentCount(h, h[Len(h)].timestamp_ms))

\* calculateBreathingRegularity, from the durations and their mean
RegularityOf(durations, mean) ==
    IF flt(mean, EPSILON) THEN Zero
    ELSE fmax(Zero,
              fmin(Lit(1, 0),
                   fsub(Lit(1, 0),
                        fdiv(fsqrt(fdiv(SumSqDiff(durations, 1, Len(durations),
                                                  mean, Zero),
                                        FromInt(Len(durations)))),
                             mean))))

\* the mean of a non-empty sequence, summed left to right
MeanOf(values) == fdiv(SumFrom(values, 1, Len(values), Zero), FromInt(Len(values)))

\* RespiroEngine::calculateBreathingRegularity
calculateBreathingRegularity(h) ==
    IF Len(h) < 5 THEN Zero
    ELSE RegularityOf([i \in 1..Len(h) |-> h[i].duration_ms],
                      MeanOf([i \in 1..Len(h) |-> h[i].duration_ms]))

\* calculateSNR, the ratio of the mean amplitude to the noise
NoiseRatio(mean_amplitude, noise) ==
    IF flt(noise, EPSILON) THEN Zero ELSE fdiv(mean_amplitude, noise)

\* calculateSNR, from the amplitudes and their mean
SNROf(amplitudes, mean_amplitude) ==
    NoiseRatio(mean_amplitude,
               fsqrt(fdiv(SumSqDiff(amplitudes, 1, Len(amplitudes),
                                    mean_amplitude, Zero),
                          FromInt(Len(amplitudes)))))

\* RespiroEngine::calculateSNR
calculateSNR(h) ==
    IF Len(h) < 3 THEN Zero
    ELSE SNROf([i \in 1..Len(h) |-> h[i].amplitude],
               MeanOf([i \in 1..Len(h) |-> h[i].amplitude]))

\* assessSignalQuality with the test for GOOD ahead of the test for EXCELLENT
assessSignalQuality_m(snr, sample_count, regularity) ==
    IF sample_count < 5 THEN SIGNAL_QUALITY_UNKNOWN
    ELSE IF fgt(snr, Lit(3, 0)) /\ fgt(regularity, Lit(5, -1)) /\ sample_count >= 10
         THEN SIGNAL_QUALITY_GOOD
    ELSE IF fgt(snr, Lit(5, 0)) /\ fgt(regularity, Lit(7, -1)) /\ sample_count >= 20
         THEN SIGNAL_QUALITY_EXCELLENT
    ELSE IF fgt(snr, Lit(15, -1)) /\ sample_count >= 5
         THEN SIGNAL_QUALITY_FAIR
    ELSE SIGNAL_QUALITY_POOR

\* RespiroEngine::assessSignalQuality
assessSignalQuality(snr, sample_count, regularity) ==
    IF sample_count < 5 THEN SIGNAL_QUALITY_UNKNOWN
    ELSE IF fgt(snr, Lit(5, 0)) /\ fgt(regularity, Lit(7, -1)) /\ sample_count >= 20
         THEN SIGNAL_QUALITY_EXCELLENT
    ELSE IF fgt(snr, Lit(3, 0)) /\ fgt(regularity, Lit(5, -1)) /\ sample_count >= 10
         THEN SIGNAL_QUALITY_GOOD
    ELSE IF fgt(snr, Lit(15, -1)) /\ sample_count >= 5
         THEN SIGNAL_QUALITY_FAIR
    ELSE SIGNAL_QUALITY_POOR

\* classifySleepStage with the REM band starting at 0.25
classifySleepStage_m2(movement_intensity, breathing_regularity, sample_count) ==
    IF sample_count < 5 THEN UNKNOWN
    ELSE IF fgt(movement_intensity, Lit(4, -1)) THEN AWAKE
    ELSE IF flt(movement_intensity, Lit(5, -2)) /\ fgt(breathing_regularity, Lit(85, -2))
         THEN DEEP_SLEEP
    ELSE IF fgt(movement_intensity, Lit(25, -2)) /\ flt(movement_intensity, Lit(35, -2))
         THEN REM_SLEEP
    ELSE LIGHT_SLEEP

\* the classifier asking for three cycles instead of five
classifySleepStage_m(movement_intensity, breathing_regularity, sample_count) ==
    IF sample_count < 3 THEN UNKNOWN
    ELSE IF fgt(movement_intensity, Lit(4, -1)) THEN AWAKE
    ELSE IF flt(movement_intensity, Lit(5, -2)) /\ fgt(breathing_regularity, Lit(85, -2))
         THEN DEEP_SLEEP
    ELSE IF fgt(movement_intensity, Lit(15, -2)) /\ flt(movement_intensity, Lit(35, -2))
         THEN REM_SLEEP
    ELSE LIGHT_SLEEP

\* RespiroEngine::classifySleepStage
classifySleepStage(movement_intensity, breathing_regularity, sample_count) ==
    IF sample_count < 5 THEN UNKNOWN
    ELSE IF fgt(movement_intensity, Lit(4, -1)) THEN AWAKE
    ELSE IF flt(movement_intensity, Lit(5, -2)) /\ fgt(breathing_regularity, Lit(85, -2))
         THEN DEEP_SLEEP
    ELSE IF fgt(movement_intensity, Lit(15, -2)) /\ flt(movement_intensity, Lit(35, -2))
         THEN REM_SLEEP
    ELSE LIGHT_SLEEP

\* variance = mean of squares - mean^2, clamped at zero
ClampedVariance(mean_sq, mean) == fmax(Zero, fsub(mean_sq, fmul(mean, mean)))

\* the movement-intensity block at the end of feedAccelerometer
MovementVariance(mb, sum, sq) ==
    IF Len(mb) > 10
    THEN ClampedVariance(fdiv(sq, FromInt(Len(mb))), fdiv(sum, FromInt(Len(mb))))
    ELSE Zero

\* feedAccelerometer, the rate and movement updates after peak detection
AccelFinish(e2, w) ==
    [e2 EXCEPT !.current_bpm = calculateBreathingRate(e2.breath_history),
               !.movement_variance = MovementVariance(w.mb, w.sum, w.sq)]

\* feedAccelerometer, the phase-memory update and the peak detection on the
\* advanced filter, whose y1 is the breathing signal
AccelDetect(e, timestamp_ms, w, gravity, filter) ==
    AccelFinish(
        detectBreathingPeaks(
            [e EXCEPT !.accel_buffer = w.ab,
                      !.accel_magnitude_buffer = w.mb,
                      !.accel_magnitude_sum = w.sum,
                      !.accel_magnitude_sum_squares = w.sq,
                      !.gravity_estimate = gravity,
                      !.breathing_filter = filter,
                      !.phase_memory = PhaseMemoryUpdate(@, filter.y1)],
            filter.y1, timestamp_ms),
        w)

\* feedAccelerometer, the chest motion (gravity removed, gyroscope fused)
\* through the band-pass filter
AccelFilter(e, timestamp_ms, mag, w, gravity) ==
    AccelDetect(e, timestamp_ms, w, gravity,
        FilterProcess(e.breathing_filter,
            IF e.gyro_buffer # <<>>
            THEN fadd(fsub(mag, gravity),
                      fmul(magnitude(e.gyro_buffer[Len(e.gyro_buffer)]), Lit(1, -1)))
            ELSE fsub(mag, gravity)))

\* feedAccelerometer, with the magnitude mag of the sample
AccelStore(e, sample, mag) ==
    AccelFilter(e, sample.timestamp_ms, mag,
        TrimAccel([ab  |-> Append(e.accel_buffer, sample),
                   mb  |-> Append(e.accel_magnitude_buffer, mag),
                   sum |-> fadd(e.accel_magnitude_sum, mag),
                   sq  |-> fadd(e.accel_magnitude_sum_squares, fmul(mag, mag))],
                  sample.timestamp_ms),
        GravityUpdate(e.gravity_estimate, mag))

\* RespiroEngine::feedAccelerometer
feedAccelerometer(e, x, y, z, timestamp_ms) ==
    AccelStore(e, [x |-> x, y |-> y, z |-> z, timestamp_ms |-> timestamp_ms],
               magnitude([x |-> x, y |-> y, z |-> z]))

\* getCurrentMetrics, the snapshot from the derived values
Snapshot(e, timestamp_ms, regularity, movement, snr) ==
    [current_stage |-> classifySleepStage(movement, regularity, Len(e.breath_history)),
     confidence |-> fmin(Lit(1, 0), fdiv(FromInt(Len(e.breath_history)), Lit(20, 0))),
     breathing_rate_bpm |-> e.current_bpm,
     breathing_regularity |-> regularity,
     movement_intensity |-> movement,
     breath_cycles_detected |-> Len(e.breath_history),
     possible_apnea |->
        IF e.last_breath_time > 0
           /\ USub(timestamp_ms, e.last_breath_time) > APNEA_THRESHOLD_MS
        THEN 1 ELSE 0,
     signal_quality |-> assessSignalQuality(snr, Len(e.breath_history), regularity),
     signal_noise_ratio |-> snr,
     instability_score |-> instabilityScore(e.phase_memory),
     instability_detected |-> IF instabilityDetected(e.phase_memory) THEN 1 ELSE 0]

\* RespiroEngine::getCurrentMetrics
getCurrentMetrics(e, timestamp_ms) ==
    Snapshot(e, timestamp_ms,
             calculateBreathingRegularity(e.breath_history),
             fmin(Lit(1, 0), fmul(e.movement_variance, Lit(10, 0))),
             calculateSNR(e.breath_history))

(***************************************************************************)
(*                      C API over engine handles                          *)
(***************************************************************************)
\* the engines a client holds; NULL is the null handle
Handles == {1, 2}

\* what the storage handed to operator new may hold before construction
Garbage == {Zero, Lit(5, 0), NaN}

\* respiro_create: new RespiroEngine() in storage holding `raw`
respiro_create(raw) == RespiroEngine(raw)

\* std::memset(out_metrics, 0, sizeof(*out_metrics))
ZeroFilled ==
    [current_stage |-> 0, confidence |-> Zero, breathing_rate_bpm |-> Zero,
     breathing_regularity |-> Zero, movement_intensity |-> Zero,
     breath_cycles_detected |-> 0, possible_apnea |-> 0,
     signal_quality |-> 0, signal_noise_ratio |-> Zero,
     instability_score |-> Zero, instability_detected |-> 0]

\* a SleepMetrics struct the caller has declared and nothing has written yet
Unwritten == [written |-> FALSE]

\* respiro_start_session on the heap `eng` of engines
respiro_start_session(eng, handle, timestamp_ms) ==
    IF handle = NULL THEN eng
    ELSE [eng EXCEPT ![handle] = startSession(@, timestamp_ms)]

\* the validation with one coordinate left out
ValidSample_m(x, y, z) == isfinite(x) /\ isfinite(z)

\* the input validation of respiro_feed_gyro and respiro_feed_accel
ValidSample(x, y, z) == isfinite(x) /\ isfinite(y) /\ isfinite(z)

\* respiro_feed_gyro
respiro_feed_gyro(eng, handle, x, y, z, timestamp_ms) ==
    IF handle = NULL THEN eng
    ELSE IF ~ValidSample(x, y, z) THEN eng
    ELSE [eng EXCEPT ![handle] = feedGyroscope(@, x, y, z, timestamp_ms)]

\* a feed that reaches every engine of the process, not only the handle's
respiro_feed_accel_m(eng, handle, x, y, z, timestamp_ms) ==
    IF handle = NULL THEN eng
    ELSE IF ~ValidSample(x, y, z) THEN eng
    ELSE [h \in DOMAIN eng |-> feedAccelerometer(eng[h], x, y, z, timestamp_ms)]

\* respiro_feed_accel
respiro_feed_accel(eng, handle, x, y, z, timestamp_ms) ==
    IF handle = NULL THEN eng
    ELSE IF ~ValidSample(x, y, z) THEN eng
    ELSE [eng EXCEPT ![handle] = feedAccelerometer(@, x, y, z, timestamp_ms)]

\* respiro_get_metrics: `out` maps each SleepMetrics struct of the caller to
\* its content, slot names the struct passed as out_metrics (NULL for none).
\* getCurrentMetrics allocates only small vectors; the catch branch for a
\* failed allocation is not modelled.
respiro_get_metrics(eng, out, handle, timestamp_ms, slot) ==
    IF slot = NULL THEN out
    ELSE IF handle = NULL
         THEN [out EXCEPT ![slot] = [ZeroFilled EXCEPT !.current_stage = UNKNOWN]]
    ELSE [out EXCEPT ![slot] = getCurrentMetrics(eng[handle], timestamp_ms)]

(***************************************************************************)
(*                            state machine                                *)
(***************************************************************************)
VARIABLES
    engine,       \* handle -> the RespiroEngine object behind it
    out_metrics,  \* the caller's SleepMetrics structs, one per handle
    call,         \* the API call made last
    nops,         \* number of API calls the client has made
    pc,           \* which client drives the engines, and its phase
    script,       \* the sample stream the streaming client plays; for the
                  \* two-handle client, the calls made so far on each handle
    pos,          \* samples of the stream fed so far; calls of the private history
    sessions,     \* start_session calls the streaming client has made
    fed           \* accel samples accepted since the last start_session

vars == <<engine, out_metrics, call, nops, pc, script, pos, sessions, fed>>

Call(op, handle, x, y, z, timestamp_ms, slot) ==
    [op |-> op, handle |-> handle, x |-> x, y |-> y, z |-> z,
     timestamp_ms |-> timestamp_ms, out |-> slot]

NoCall == Call("none", NULL, Zero, Zero, Zero, 0, NULL)

\* the state after construction: both engines created, nothing called yet
Created(client) ==
    /\ \E raw \in [Handles -> Garbage] :
          engine = [h \in Handles |-> respiro_create(raw[h])]
    /\ out_metrics = [h \in Handles |-> Unwritten]
    /\ call = NoCall
    /\ nops = 0
    /\ pc = client
    /\ pos = 0
    /\ sessions = 0
    /\ fed = 0

(***************************************************************************)
(* A client that calls the API freely on engine 1 and on the null handle.  *)
(***************************************************************************)
MaxOps == 3

\* handles, timestamps and samples the free client passes
ClientHandles == {NULL, 1}
Times == {0, 1000, 7000}
AccelSamples == {<<Zero, Zero, Lit(981, -2)>>, <<Zero, Zero, Lit(3, 19)>>}
GyroSamples == {<<Lit(1, 0), Zero, Zero>>}
InvalidSamples == {<<NaN, Zero, Zero>>, <<Zero, PInf, Zero>>, <<Zero, Zero, NInf>>}

Init == Created("client") /\ script = "none"

StartSession(h, t) ==
    /\ nops < MaxOps
    /\ engine' = respiro_start_session(engine, h, t)
    /\ call' = Call("start_session", h, Zero, Zero, Zero, t, NULL)
    /\ nops' = nops + 1
    /\ UNCHANGED <<out_metrics, pc, script, pos, sessions, fed>>

FeedGyro(h, s, t) ==
    /\ nops < MaxOps
    /\ engine' = respiro_feed_gyro(engine, h, s[1], s[2], s[3], t)
    /\ call' = Call("feed_gyro", h, s[1], s[2], s[3], t, NULL)
    /\ nops' = nops + 1
    /\ UNCHANGED <<out_metrics, pc, script, pos, sessions, fed>>

FeedAccel(h, s, t) ==
    /\ nops < MaxOps
    /\ engine' = respiro_feed_accel(engine, h, s[1], s[2], s[3], t)
    /\ call' = Call("feed_accel", h, s[1], s[2], s[3], t, NULL)
    /\ nops' = nops + 1
    /\ UNCHANGED <<out_metrics, pc, script, pos, sessions, fed>>

\* a query that records its time in the engine
GetMetrics_m(h, t, slot) ==
    /\ nops < MaxOps
    /\ out_metrics' = respiro_get_metrics(engine, out_metrics, h, t, slot)
    /\ engine' = IF h = NULL THEN engine
                 ELSE [engine EXCEPT ![h].last_breath_time = t]
    /\ call' = Call("get_metrics", h, Zero, Zero, Zero, t, slot)
    /\ nops' = nops + 1
    /\ UNCHANGED <<pc, script, pos, sessions, fed>>

GetMetrics(h, t, slot) ==
    /\ nops < MaxOps
    /\ out_metrics' = respiro_get_metrics(engine, out_metrics, h, t, slot)
    /\ call' = Call("get_metrics", h, Zero, Zero, Zero, t, slot)
    /\ nops' = nops + 1
    /\ UNCHANGED <<engine, pc, script, pos, sessions, fed>>

Next ==
    \/ \E h \in ClientHandles, t \in Times : StartSession(h, t)
    \/ \E h \in ClientHandles, s \in GyroSamples \cup InvalidSamples, t \in Times :
          FeedGyro(h, s, t)
    \/ \E h \in ClientHandles, s \in AccelSamples \cup InvalidSamples, t \in Times :
          FeedAccel(h, s, t)
    \/ \E h \in ClientHandles, t \in Times, slot \in {NULL, 1} : GetMetrics(h, t, slot)

Spec == Init /\ [][Next]_vars

(***************************************************************************)
(* A client that plays a long sample stream into engine 1: it starts a     *)
(* session, feeds the samples of the stream in order, queries after every  *)
(* sample, and may start a new session after the samples in RestartAt.     *)
(* The samples are accelerometer samples, but for the streams "rest" and   *)
(* "stall", in which every tenth sample is a gyroscope sample.             *)
(***************************************************************************)
StreamLen == 300
MaxSessions == 2
Scripts == {"breath", "onset", "spike", "pause", "rewind", "rest", "descent", "lull",
            "stall", "jolt", "sway"}
RestartAt == {3, 24, 260}

\* the i-th sample of a stream, i >= 1: <<x, y, z, timestamp_ms>>
\*   breath: z alternates 9.81, 9.81, 20, 20 at 2 Hz (one breath every 2 s)
\*   onset:  the device at rest for 270 samples at 50 Hz, then z alternates
\*           9.81, 20 from sample to sample
\*   spike:  the device at rest, 50 Hz, with one finite sample of 3e19
\*   pause:  as breath for 40 samples, then six samples at rest 20 s apart,
\*           then as breath again
\*   rewind: as breath, but the clock is set back to 1000 at sample 31
\*   rest:   the device at rest, 50 Hz from timestamp 0: accelerometer
\*           (0, 0, 9.81) and gyroscope (0, 0, 0)
\*   lull:   as breath for 40 samples, then seven samples at rest 5 s apart,
\*           then as breath again
\*   stall:  the samples of breath, every tenth replaced by a gyroscope
\*           sample (1, 0, 0), all with the timestamp 1000
\*   jolt:   as breath, with one sample of 1000 m/s^2 (sample 43)
\*   sway:   z alternates 0.1, 0.1, 0.4, 0.4 at 2 Hz: small magnitudes with
\*           a variance of 0.0225
\*   descent: 50 Hz from timestamp 0, z falling quadratically, 180000 - 2 i^2
\*           for 200 samples and then half as curved, so that the filtered
\*           signal settles at a negative level and then at half of it
BreathZ(i) == IF ((i - 1) \div 2) % 2 = 1 THEN Lit(20, 0) ELSE Lit(981, -2)

Sample(s, i) ==
    IF s = "breath"
    THEN <<Zero, Zero, IF ((i - 1) \div 2) % 2 = 1 THEN Lit(20, 0) ELSE Lit(981, -2),
           1000 + (i - 1) * 500>>
    ELSE IF s = "onset"
    THEN <<Zero, Zero, IF i > 270 /\ i % 2 = 1 THEN Lit(20, 0) ELSE Lit(981, -2),
           1000 + (i - 1) * 20>>
    ELSE IF s = "spike"
    THEN <<Zero, Zero, IF i = 5 THEN Lit(3, 19) ELSE Lit(981, -2), 1000 + (i - 1) * 20>>
    ELSE IF s = "pause"
    THEN IF i <= 40 THEN <<Zero, Zero, BreathZ(i), 1000 + (i - 1) * 500>>
         ELSE IF i <= 46 THEN <<Zero, Zero, Lit(981, -2), 20500 + (i - 40) * 20000>>
         ELSE <<Zero, Zero, BreathZ(i), 140500 + (i - 46) * 500>>
    ELSE IF s = "rewind"
    THEN <<Zero, Zero, BreathZ(i),
           IF i <= 30 THEN 1000 + (i - 1) * 500 ELSE 1000 + (i - 31) * 500>>
    ELSE IF s = "lull"
    THEN IF i <= 40 THEN <<Zero, Zero, BreathZ(i), 1000 + (i - 1) * 500>>
         ELSE IF i <= 47 THEN <<Zero, Zero, Lit(981, -2), 20500 + (i - 40) * 5000>>
         ELSE <<Zero, Zero, BreathZ(i), 55500 + (i - 47) * 500>>
    ELSE IF s = "jolt"
    THEN <<Zero, Zero, IF i = 43 THEN Lit(1, 3) ELSE BreathZ(i), 1000 + (i - 1) * 500>>
    ELSE IF s = "sway"
    THEN <<Zero, Zero, IF ((i - 1) \div 2) % 2 = 1 THEN Lit(4, -1) ELSE Lit(1, -1),
           1000 + (i - 1) * 500>>
    ELSE IF s = "stall"
    THEN IF i % 10 = 1 THEN <<Lit(1, 0), Zero, Zero, 1000>>
         ELSE <<Zero, Zero, BreathZ(i), 1000>>
    ELSE IF s = "descent"
    THEN <<Zero, Zero,
           IF i <= 200 THEN FromInt(180000 - 2 * i * i)
           ELSE FromInt(100000 - 800 * (i - 200) - (i - 200) * (i - 200)),
           (i - 1) * 20>>
    ELSE <<Zero, Zero, IF i % 10 = 1 THEN Zero ELSE Lit(981, -2), (i - 1) * 20>>

\* the sensor the i-th sample of a stream comes from
Sensor(s, i) == IF s \in {"rest", "stall"} /\ i % 10 = 1 THEN "gyro" ELSE "accel"

\* the time of the sample fed last
Now == Sample(script, IF pos = 0 THEN 1 ELSE pos)[4]

InitStream == Created("stream") /\ script \in Scripts

StreamStart ==
    /\ pc = "stream"
    /\ sessions < MaxSessions
    /\ sessions = 0 \/ pos \in RestartAt
    /\ call.op # "start_session"
    /\ engine' = respiro_start_session(engine, 1, Now)
    /\ call' = Call("start_session", 1, Zero, Zero, Zero, Now, NULL)
    /\ sessions' = sessions + 1
    /\ fed' = 0
    /\ UNCHANGED <<out_metrics, nops, pc, script, pos>>

StreamFeed ==
    /\ pc = "stream"
    /\ sessions > 0
    /\ pos < StreamLen
    /\ call.op \notin {"feed_accel", "feed_gyro"}
    /\ Sensor(script, pos + 1) = "accel"
    /\ LET s == Sample(script, pos + 1)
       IN  /\ engine' = respiro_feed_accel(engine, 1, s[1], s[2], s[3], s[4])
           /\ call' = Call("feed_accel", 1, s[1], s[2], s[3], s[4], NULL)
           /\ fed' = IF ValidSample(s[1], s[2], s[3]) THEN fed + 1 ELSE fed
    /\ pos' = pos + 1
    /\ UNCHANGED <<out_metrics, nops, pc, script, sessions>>

StreamFeedGyro ==
    /\ pc = "stream"
    /\ sessions > 0
    /\ pos < StreamLen
    /\ call.op \notin {"feed_accel", "feed_gyro"}
    /\ Sensor(script, pos + 1) = "gyro"
    /\ LET s == Sample(script, pos + 1)
       IN  /\ engine' = respiro_feed_gyro(engine, 1, s[1], s[2], s[3], s[4])
           /\ call' = Call("feed_gyro", 1, s[1], s[2], s[3], s[4], NULL)
    /\ pos' = pos + 1
    /\ UNCHANGED <<out_metrics, nops, pc, script, sessions, fed>>

StreamQuery ==
    /\ pc = "stream"
    /\ sessions > 0
    /\ out_metrics' = respiro_get_metrics(engine, out_metrics, 1, Now, 1)
    /\ call' = Call("get_metrics", 1, Zero, Zero, Zero, Now, 1)
    /\ UNCHANGED <<engine, nops, pc, script, pos, sessions, fed>>

NextStream == StreamStart \/ StreamFeed \/ StreamFeedGyro \/ StreamQuery

SpecStream == InitStream /\ [][NextStream]_vars

(***************************************************************************)
(* A client that drives two engines side by side.  It may first give       *)
(* engine 1 a private history; every other call is made on engine 1 and    *)
(* then, with the same arguments, on engine 2.  pc is "paired" while the   *)
(* two engines have received the same calls since creation, "diverged"     *)
(* once engine 1 has a private history, and "session" after the next       *)
(* start_session on both.  The client stamps a call with its clock.        *)
(***************************************************************************)
MaxPairOps == 6
MaxHistory == 1

Clock == 1000 + 500 * nops

PairHistoryGyro(s) ==
    /\ pc \in {"paired", "diverged"}
    /\ nops < MaxPairOps /\ pos < MaxHistory
    /\ engine' = respiro_feed_gyro(engine, 1, s[1], s[2], s[3], Clock)
    /\ call' = Call("feed_gyro", 1, s[1], s[2], s[3], Clock, NULL)
    /\ pc' = "diverged" /\ nops' = nops + 1 /\ pos' = pos + 1
    /\ UNCHANGED <<out_metrics, script, sessions, fed>>

PairHistoryAccel(s) ==
    /\ pc \in {"paired", "diverged"}
    /\ nops < MaxPairOps /\ pos < MaxHistory
    /\ engine' = respiro_feed_accel(engine, 1, s[1], s[2], s[3], Clock)
    /\ call' = Call("feed_accel", 1, s[1], s[2], s[3], Clock, NULL)
    /\ pc' = "diverged" /\ nops' = nops + 1 /\ pos' = pos + 1
    /\ UNCHANGED <<out_metrics, script, sessions, fed>>

PairStart ==
    /\ pc \in {"paired", "diverged", "session"}
    /\ nops < MaxPairOps
    /\ engine' = respiro_start_session(respiro_start_session(engine, 1, Clock), 2, Clock)
    /\ call' = Call("start_session", 2, Zero, Zero, Zero, Clock, NULL)
    /\ pc' = IF pc = "paired" THEN "paired" ELSE "session"
    /\ nops' = nops + 1
    /\ UNCHANGED <<out_metrics, script, pos, sessions, fed>>

PairFeedGyro(s) ==
    /\ pc \in {"paired", "session"}
    /\ nops < MaxPairOps
    /\ engine' = respiro_feed_gyro(respiro_feed_gyro(engine, 1, s[1], s[2], s[3], Clock),
                                   2, s[1], s[2], s[3], Clock)
    /\ call' = Call("feed_gyro", 2, s[1], s[2], s[3], Clock, NULL)
    /\ nops' = nops + 1
    /\ UNCHANGED <<out_metrics, pc, script, pos, sessions, fed>>

PairFeedAccel(s) ==
    /\ pc \in {"paired", "session"}
    /\ nops < MaxPairOps
    /\ engine' = respiro_feed_accel(respiro_feed_accel(engine, 1, s[1], s[2], s[3], Clock),
                                    2, s[1], s[2], s[3], Clock)
    /\ call' = Call("feed_accel", 2, s[1], s[2], s[3], Clock, NULL)
    /\ nops' = nops + 1
    /\ UNCHANGED <<out_metrics, pc, script, pos, sessions, fed>>

PairGetMetrics ==
    /\ pc \in {"paired", "session"}
    /\ nops < MaxPairOps
    /\ out_metrics' = respiro_get_metrics(engine,
                          respiro_get_metrics(engine, out_metrics, 1, Clock, 1),
                          2, Clock, 2)
    /\ call' = Call("get_metrics", 2, Zero, Zero, Zero, Clock, 2)
    /\ nops' = nops + 1
    /\ UNCHANGED <<engine, pc, script, pos, sessions, fed>>

PairAccelSamples == {<<Zero, Zero, Lit(981, -2)>>, <<Zero, Zero, Lit(20, 0)>>}

InitPair == Created("paired") /\ script = "none"

NextPair ==
    \/ \E s \in GyroSamples : PairHistoryGyro(s)
    \/ \E s \in PairAccelSamples : PairHistoryAccel(s)
    \/ PairStart
    \/ \E s \in GyroSamples : PairFeedGyro(s)
    \/ \E s \in PairAccelSamples : PairFeedAccel(s)
    \/ PairGetMetrics

SpecPair == InitPair /\ [][NextPair]_vars

(***************************************************************************)
(* A client that feeds engine 1 gyroscope and accelerometer samples whose  *)
(* timestamps come in any order.                                           *)
(***************************************************************************)
MaxWindowOps == 4

WindowTimes == {0, 1000, 3000, 7000}

WindowFeedGyro(t) ==
    /\ pc = "window"
    /\ nops < MaxWindowOps
    /\ engine' = respiro_feed_gyro(engine, 1, Lit(1, 0), Zero, Zero, t)
    /\ call' = Call("feed_gyro", 1, Lit(1, 0), Zero, Zero, t, NULL)
    /\ nops' = nops + 1
    /\ UNCHANGED <<out_metrics, pc, script, pos, sessions, fed>>

WindowFeedAccel(t) ==
    /\ pc = "window"
    /\ nops < MaxWindowOps
    /\ engine' = respiro_feed_accel(engine, 1, Zero, Zero, Lit(981, -2), t)
    /\ call' = Call("feed_accel", 1, Zero, Zero, Lit(981, -2), t, NULL)
    /\ nops' = nops + 1
    /\ UNCHANGED <<out_metrics, pc, script, pos, sessions, fed>>

InitWindow == Created("window") /\ script = "none"

NextWindow ==
    \/ \E t \in WindowTimes : WindowFeedGyro(t)
    \/ \E t \in WindowTimes : WindowFeedAccel(t)

SpecWindow == InitWindow /\ [][NextWindow]_vars

(***************************************************************************)
(* A client that calls the API on two handles in any interleaving, each    *)
(* handle with its own SleepMetrics struct, and logs the calls per handle. *)
(***************************************************************************)
MaxTwoOps == 4

\* the call c appended to the log of its handle
Logged(c) == [script EXCEPT ![c.handle] = Append(@, c)]

TwoStart(h) ==
    /\ pc = "two"
    /\ nops < MaxTwoOps
    /\ engine' = respiro_start_session(engine, h, Clock)
    /\ call' = Call("start_session", h, Zero, Zero, Zero, Clock, NULL)
    /\ script' = Logged(call')
    /\ nops' = nops + 1
    /\ UNCHANGED <<out_metrics, pc, pos, sessions, fed>>

TwoFeedGyro(h, s) ==
    /\ pc = "two"
    /\ nops < MaxTwoOps
    /\ engine' = respiro_feed_gyro(engine, h, s[1], s[2], s[3], Clock)
    /\ call' = Call("feed_gyro", h, s[1], s[2], s[3], Clock, NULL)
    /\ script' = Logged(call')
    /\ nops' = nops + 1
    /\ UNCHANGED <<out_metrics, pc, pos, sessions, fed>>

TwoFeedAccel(h, s) ==
    /\ pc = "two"
    /\ nops < MaxTwoOps
    /\ engine' = respiro_feed_accel(engine, h, s[1], s[2], s[3], Clock)
    /\ call' = Call("feed_accel", h, s[1], s[2], s[3], Clock, NULL)
    /\ script' = Logged(call')
    /\ nops' = nops + 1
    /\ UNCHANGED <<out_metrics, pc, pos, sessions, fed>>

TwoGetMetrics(h) ==
    /\ pc = "two"
    /\ nops < MaxTwoOps
    /\ out_metrics' = respiro_get_metrics(engine, out_metrics, h, Clock, h)
    /\ call' = Call("get_metrics", h, Zero, Zero, Zero, Clock, h)
    /\ script' = Logged(call')
    /\ nops' = nops + 1
    /\ UNCHANGED <<engine, pc, pos, sessions, fed>>

InitTwo == Created("two") /\ script = [h \in Handles |-> <<>>]

NextTwo ==
    \/ \E h \in Handles : TwoStart(h)
    \/ \E h \in Handles, s \in GyroSamples : TwoFeedGyro(h, s)
    \/ \E h \in Handles, s \in PairAccelSamples : TwoFeedAccel(h, s)
    \/ \E h \in Handles : TwoGetMetrics(h)

SpecTwo == InitTwo /\ [][NextTwo]_vars

(***************************************************************************)
(*                              properties                                 *)
(***************************************************************************)
\* the record the specification calls the zero snapshot
ZeroSnapshot ==
    [ZeroFilled EXCEPT !.current_stage = UNKNOWN,
                       !.signal_quality = SIGNAL_QUALITY_UNKNOWN]

\* a feed call with a NaN or infinite coordinate
InvalidFeed(c) ==
    /\ c.op \in {"feed_accel", "feed_gyro"}
    /\ ~isfinite(c.x) \/ ~isfinite(c.y) \/ ~isfinite(c.z)

\* C1: a feed_accel or feed_gyro call in which a coordinate is NaN or
\* +/-infinity is dropped: no field of any engine changes, so a query at any
\* time returns the same record before and after the call.
C1_InvalidFeedDropped ==
    [][InvalidFeed(call') =>
          /\ engine' = engine
          /\ \A h \in Handles, t \in Times :
                getCurrentMetrics(engine'[h], t) = getCurrentMetrics(engine[h], t)]_vars

\* an invalid feed has just been made on an engine that holds samples
C1_Witness ==
    /\ InvalidFeed(call)
    /\ call.handle = 1
    /\ engine[1].accel_buffer # <<>> \/ engine[1].gyro_buffer # <<>>

\* C2: a query with the null handle fills the output record with zeros and
\* sets current_stage = UNKNOWN and signal_quality = UNKNOWN.
C2_NullHandleQuery ==
    (call.op = "get_metrics" /\ call.handle = NULL /\ call.out # NULL)
        => out_metrics[call.out] = ZeroSnapshot

\* a query made right after a start_session on the same handle, with the
\* same timestamp
QueryAfterStart(c, d) ==
    /\ c.op = "start_session" /\ d.op = "get_metrics"
    /\ c.handle # NULL /\ d.handle = c.handle
    /\ d.timestamp_ms = c.timestamp_ms
    /\ d.out # NULL

\* C3: whatever was fed and queried before, start_session(h, t) followed
\* immediately by a query (h, t) returns the zero snapshot, the record a
\* freshly created engine returns after a single start_session.
C3_ResetSnapshot ==
    [][QueryAfterStart(call, call') =>
          /\ out_metrics'[call'.out] = ZeroSnapshot
          /\ out_metrics'[call'.out] =
                getCurrentMetrics(startSession(respiro_create(Zero), call.timestamp_ms),
                                  call.timestamp_ms)]_vars

\* the zero snapshot has just been returned by an engine whose session was
\* restarted after ten or more samples (the accel window still holds them,
\* the phase-memory operator has seen none since) and 24 samples into the
\* breathing stream, where five cycles had been counted
C3_Witness ==
    /\ call.op = "get_metrics" /\ call.handle = 1
    /\ out_metrics[1] = ZeroSnapshot
    /\ script = "breath" /\ pos = 24 /\ sessions = 2 /\ fed = 0
    /\ Len(engine[1].accel_buffer) >= 10
    /\ ~engine[1].phase_memory.initialized

\* C4: right after start_session every window is empty, the bandpass ring
\* is all zeros, and every scalar, filter register, phase-memory field and
\* peak-detector field holds its initial value, whatever preceded the call.
C4_SessionStartsClean ==
    (call.op = "start_session" /\ call.handle # NULL) =>
        LET e == engine[call.handle]
        IN  /\ e.gyro_buffer = <<>>
            /\ e.accel_buffer = <<>>
            /\ e.accel_magnitude_buffer = <<>>
            /\ e.breath_history = <<>>
            /\ e.breathing_signal_buffer = Zeros(BUFFER_SIZE)
            /\ e.breathing_signal_sum = Zero
            /\ e.breathing_signal_sum_squares = Zero
            /\ e.buffer_index = 0
            /\ e.breathing_filter = FilterReset
            /\ e.phase_memory = PhaseMemoryReset
            /\ e.last_peak_time = 0 /\ e.last_peak_value = Zero
            /\ e.in_peak = FALSE /\ e.peak_threshold = Lit(1, -1)
            /\ e.current_bpm = Zero /\ e.current_stage = UNKNOWN
            /\ e.movement_variance = Zero /\ e.gravity_estimate = GRAVITY
            /\ e.last_breath_time = 0
            /\ e.accel_magnitude_sum = Zero /\ e.accel_magnitude_sum_squares = Zero
            /\ e.session_start_time = call.timestamp_ms

\* C5: a session does not depend on what preceded it: an engine that ran a
\* history, then start_session(t), then a sequence of calls returns at each
\* query of the sequence the record that an engine without the history
\* returns after start_session(t) and the same sequence.
C5_SessionIndependent ==
    (pc = "session" /\ call.op = "get_metrics") => out_metrics[1] = out_metrics[2]

C7_BaselineGating ==
    (call.op = "get_metrics" /\ fed < BASELINE_SAMPLES + 1)
        => out_metrics[1].instability_detected = 0

\* a query after 250 accepted samples whose score is above alpha * sigma_omega
C7_Witness ==
    /\ call.op = "get_metrics" /\ fed = BASELINE_SAMPLES
    /\ fgt(out_metrics[1].instability_score,
           fmul(DEFAULT_ALPHA, engine[1].phase_memory.sigma_omega))
    /\ out_metrics[1].instability_detected = 0

\* C8: in every reachable state sigma_omega >= 1e-4, and once baseline_ready
\* is set sigma_omega keeps its value under every call other than
\* start_session.
C8_SigmaFloorFrozen ==
    /\ [](\A h \in Handles : fge(engine[h].phase_memory.sigma_omega, SIGMA_FLOOR))
    /\ [][\A h \in Handles :
            (engine[h].phase_memory.baseline_ready /\ call'.op # "start_session")
                => engine'[h].phase_memory.sigma_omega
                       = engine[h].phase_memory.sigma_omega]_vars

InUnit(a) == fge(a, Zero) /\ fle(a, Lit(1, 0))

\* C9: every record a query returns has confidence, breathing_regularity and
\* movement_intensity in [0, 1], possible_apnea and instability_detected in
\* {0, 1}, and breathing_rate_bpm, breath_cycles_detected and
\* instability_score >= 0.
C9_MetricRanges ==
    (call.op = "get_metrics" /\ call.out # NULL) =>
        LET m == out_metrics[call.out]
        IN  /\ InUnit(m.confidence)
            /\ InUnit(m.breathing_regularity)
            /\ InUnit(m.movement_intensity)
            /\ m.possible_apnea \in {0, 1}
            /\ m.instability_detected \in {0, 1}
            /\ fge(m.breathing_rate_bpm, Zero)
            /\ m.breath_cycles_detected >= 0
            /\ fge(m.instability_score, Zero)

\* C10: a query made while the breath history holds fewer than 5 cycles
\* returns signal_quality = UNKNOWN and current_stage = UNKNOWN, whatever
\* the movement, regularity and SNR values.
C10_FewCyclesUnknown ==
    (call.op = "get_metrics" /\ Len(engine[1].breath_history) < 5) =>
        /\ out_metrics[1].signal_quality = SIGNAL_QUALITY_UNKNOWN
        /\ out_metrics[1].current_stage = UNKNOWN

\* a query with four cycles in the history, movement above the AWAKE
\* threshold and an SNR above the FAIR threshold
C10_Witness ==
    /\ call.op = "get_metrics"
    /\ Len(engine[1].breath_history) = 4
    /\ fgt(out_metrics[1].movement_intensity, Lit(4, -1))
    /\ fgt(out_metrics[1].signal_noise_ratio, Lit(15, -1))
    /\ out_metrics[1].signal_quality = SIGNAL_QUALITY_UNKNOWN
    /\ out_metrics[1].current_stage = UNKNOWN

\* C11: respiro_get_metrics changes no engine state, and a query repeated
\* with the same handle, time and struct right after the first returns the
\* same record.  (Every later result is a function of the engine state, so
\* it is the same whether or not the query was issued.)
C11_QueryIsPure ==
    [][call'.op = "get_metrics" =>
          /\ engine' = engine
          /\ (call = [call' EXCEPT !.op = "get_metrics"] /\ call.op = "get_metrics"
                 => out_metrics' = out_metrics)]_vars

\* a query, as the last call, of an engine that has ingested two
\* accelerometer samples
C11_Witness ==
    /\ call.op = "get_metrics" /\ call.handle = 1 /\ call.out = 1
    /\ nops = MaxOps
    /\ Len(engine[1].accel_buffer) = 2
    /\ engine[1].phase_memory.initialized
    /\ out_metrics[1] = getCurrentMetrics(engine[1], call.timestamp_ms)

\* the timestamps of the samples a sensor window retains
Retained(buf) == {buf[j].timestamp_ms : j \in 1..Len(buf)}

\* C12: after respiro_feed_gyro (respiro_feed_accel) has ingested a finite
\* sample with timestamp T, in whatever order the timestamps come, no
\* sample in gyro_buffer (accel_buffer) is older than T - 5000 ms.
C12_SensorWindowTrimmed ==
    /\ call.op = "feed_gyro" =>
          \A ts \in Retained(engine[1].gyro_buffer) : ts >= call.timestamp_ms - 5000
    /\ call.op = "feed_accel" =>
          \A ts \in Retained(engine[1].accel_buffer) : ts >= call.timestamp_ms - 5000

\* C13: after respiro_feed_accel has ingested a sample with timestamp T, no
\* cycle in breath_history is older than T - 60000 ms, whether or not the
\* sample added a cycle.
C13_BreathHistoryTrimmed ==
    (call.op = "feed_accel" /\ ValidSample(call.x, call.y, call.z)) =>
        \A ts \in Retained(engine[1].breath_history) : ts >= call.timestamp_ms - 60000

\* C14: a query at time `now` reports possible_apnea = 1 exactly when a
\* breath has been recorded in the session (last_breath_time > 0) and
\* now - last_breath_time > 10000 ms.
C14_ApneaFlag ==
    (call.op = "get_metrics" /\ call.handle = 1 /\ call.out = 1) =>
        (out_metrics[1].possible_apnea = 1 <=>
            /\ engine[1].last_breath_time > 0
            /\ call.timestamp_ms - engine[1].last_breath_time > APNEA_THRESHOLD_MS)

\* the engines and structs after the logged call c is made in the state w
Perform(w, c) ==
    IF c.op = "start_session"
    THEN [w EXCEPT !.engine = respiro_start_session(@, c.handle, c.timestamp_ms)]
    ELSE IF c.op = "feed_gyro"
    THEN [w EXCEPT !.engine = respiro_feed_gyro(@, c.handle, c.x, c.y, c.z, c.timestamp_ms)]
    ELSE IF c.op = "feed_accel"
    THEN [w EXCEPT !.engine = respiro_feed_accel(@, c.handle, c.x, c.y, c.z, c.timestamp_ms)]
    ELSE [w EXCEPT !.out_metrics =
              respiro_get_metrics(w.engine, @, c.handle, c.timestamp_ms, c.out)]

\* the engines and structs after the first n calls of a log are made, and
\* no others, on freshly created engines
RECURSIVE RunAlone(_, _)
RunAlone(log, n) ==
    IF n = 0
    THEN [engine |-> [h \in Handles |-> respiro_create(Zero)],
          out_metrics |-> [h \in Handles |-> Unwritten]]
    ELSE Perform(RunAlone(log, n - 1), log[n])

\* C15: under every interleaving of calls on two handles, the engine behind
\* each handle and the metrics it last returned are those of the handle's
\* own calls made alone; so no call on one handle changes the other.
C15_HandlesIndependent ==
    \A h \in Handles :
        /\ engine[h] = RunAlone(script[h], Len(script[h])).engine[h]
        /\ out_metrics[h] = RunAlone(script[h], Len(script[h])).out_metrics[h]

\* handle 1 is fed, then handle 2, then handle 1 again, and handle 1 is
\* queried while handle 2 holds a different state
C15_Witness ==
    /\ pc = "two" /\ nops = MaxTwoOps
    /\ Len(script[1]) = 3 /\ Len(script[2]) = 1
    /\ script[1][1].op = "feed_accel" /\ script[1][2].op = "feed_accel"
    /\ script[2][1].op = "feed_accel"
    /\ script[1][1].timestamp_ms < script[2][1].timestamp_ms
    /\ script[2][1].timestamp_ms < script[1][2].timestamp_ms
    /\ call.op = "get_metrics" /\ call.handle = 1
    /\ out_metrics[1] # Unwritten /\ out_metrics[2] = Unwritten
    /\ engine[1] # engine[2]

\* C16: in a session fed only accelerometer samples (0, 0, 9.81) and zero
\* gyroscope samples at increasing timestamps from 0, the peak detector is
\* never in_peak and every query reports no cycle, rate 0, stage UNKNOWN,
\* no instability and no apnea.
C16_PureGravityRest ==
    script = "rest" =>
        /\ ~engine[1].in_peak
        /\ (call.op = "get_metrics" =>
               /\ out_metrics[1].breath_cycles_detected = 0
               /\ out_metrics[1].breathing_rate_bpm = Zero
               /\ out_metrics[1].current_stage = UNKNOWN
               /\ out_metrics[1].instability_detected = 0
               /\ out_metrics[1].possible_apnea = 0)

\* a query at the end of the rest stream: the baseline is calibrated, so
\* the instability decision is no longer gated, and the last gyroscope
\* sample is in the window
C16_Witness ==
    /\ script = "rest" /\ pos = StreamLen /\ sessions = 1
    /\ call.op = "get_metrics"
    /\ engine[1].phase_memory.baseline_ready
    /\ Len(engine[1].gyro_buffer) > 0
    /\ out_metrics[1].instability_detected = 0
    /\ out_metrics[1].breath_cycles_detected = 0

\* the step is an accepted accelerometer sample on which the detector of
\* engine 1 enters in_peak, d ms after the previous peak
PeakAfter(d) ==
    /\ call'.op = "feed_accel" /\ call'.handle = 1
    /\ ~engine[1].in_peak /\ engine'[1].in_peak
    /\ engine[1].last_peak_time > 0
    /\ call'.timestamp_ms - engine[1].last_peak_time = d

\* h1 is h0 with exactly one cycle appended, stamped ts and lasting d ms,
\* after which old cycles may have been trimmed from the front
OneCycleAppended(h0, h1, ts, d) ==
    /\ Len(h1) >= 1 /\ Len(h1) <= Len(h0) + 1
    /\ h1[Len(h1)].timestamp_ms = ts
    /\ h1[Len(h1)].duration_ms = FromInt(d)
    /\ SubSeq(h1, 1, Len(h1) - 1) = SubSeq(h0, Len(h0) - Len(h1) + 2, Len(h0))

\* the cycles of h come from peaks a constant d ms apart
Regular(h, d) ==
    /\ \A j \in 1..Len(h) : h[j].duration_ms = FromInt(d)
    /\ \A j \in 2..Len(h) : h[j].timestamp_ms - h[j - 1].timestamp_ms = d

\* C17: a peak that follows the previous one by d ms, 500 < d < 6000,
\* appends exactly one breath cycle of duration d; and when the recorded
\* cycles come from peaks a constant d apart, a query reports
\* breathing_rate_bpm = 60000 / d and confidence > 0 from 3 cycles on, and
\* a signal quality other than UNKNOWN from 5 cycles on.
C17_RegularBreathing ==
    /\ [][\A d \in {call'.timestamp_ms - engine[1].last_peak_time} :
            (PeakAfter(d) /\ d > 500 /\ d < 6000) =>
                OneCycleAppended(engine[1].breath_history, engine'[1].breath_history,
                                 call'.timestamp_ms, d)]_vars
    /\ [](pc = "stream" /\ call.op = "get_metrics" /\ Len(engine[1].breath_history) >= 3
            => \A d \in {engine[1].breath_history[2].timestamp_ms
                           - engine[1].breath_history[1].timestamp_ms} :
                 (d > 500 /\ d < 6000 /\ Regular(engine[1].breath_history, d)) =>
                    /\ out_metrics[1].breathing_rate_bpm = fdiv(Lit(60000, 0), FromInt(d))
                    /\ fgt(out_metrics[1].confidence, Zero)
                    /\ (Len(engine[1].breath_history) >= 5 =>
                           out_metrics[1].signal_quality # SIGNAL_QUALITY_UNKNOWN))

\* a query of the breath stream with at least five recorded cycles, all 2 s
\* long: 30 breaths per minute
C17_Witness ==
    /\ script = "breath" /\ call.op = "get_metrics"
    /\ Len(engine[1].breath_history) >= 5
    /\ Regular(engine[1].breath_history, 2000)
    /\ out_metrics[1].breathing_rate_bpm = Lit(30, 0)
    /\ out_metrics[1].signal_quality # SIGNAL_QUALITY_UNKNOWN

\* the call c is a gyroscope feed the API accepts on engine 1
GyroFeed(c) ==
    c.op = "feed_gyro" /\ c.handle = 1 /\ ValidSample(c.x, c.y, c.z)

\* w1 is the window w0 with the sample of call c appended and then trimmed
\* from the front by some number of entries, the new sample kept
AppendedAndTrimmed(w0, w1, c) ==
    /\ Len(w1) >= 1 /\ Len(w1) <= Len(w0) + 1
    /\ w1[Len(w1)] = [x |-> c.x, y |-> c.y, z |-> c.z, timestamp_ms |-> c.timestamp_ms]
    /\ SubSeq(w1, 1, Len(w1) - 1) = SubSeq(w0, Len(w0) - Len(w1) + 2, Len(w0))

\* C18: respiro_feed_gyro with finite values appends to and trims the gyro
\* window and changes nothing else of the engine, and a query made right
\* after it, at any time, returns what the same query returned right
\* before it.
C18_GyroFeedFrame ==
    [][GyroFeed(call') =>
          /\ AppendedAndTrimmed(engine[1].gyro_buffer, engine'[1].gyro_buffer, call')
          /\ engine' = [engine EXCEPT ![1].gyro_buffer = engine'[1].gyro_buffer]
          /\ \A t \in Times :
                getCurrentMetrics(engine'[1], t) = getCurrentMetrics(engine[1], t)]_vars

\* a second gyroscope feed, kept in the window behind the first, on an
\* engine that has processed an accelerometer sample
C18_Witness ==
    /\ GyroFeed(call) /\ call.timestamp_ms = 1000
    /\ nops = MaxOps
    /\ Len(engine[1].gyro_buffer) = 2
    /\ engine[1].gyro_buffer[1].timestamp_ms = 0
    /\ Len(engine[1].accel_buffer) = 1
    /\ engine[1].phase_memory.initialized

\* the step is an accelerometer feed to engine 1
AccelStep == call'.op = "feed_accel" /\ call'.handle = 1

\* C19: every cycle in breath_history lasts strictly between 500 and 6000
\* ms; a cycle is stored only by a sample that follows the previous peak by
\* that duration, the previous peak having a nonzero timestamp; and a
\* sample stamped earlier than the previous peak stores no cycle.
C19_CycleDurations ==
    /\ [](\A j \in 1..Len(engine[1].breath_history) :
              /\ fgt(engine[1].breath_history[j].duration_ms, Lit(500, 0))
              /\ flt(engine[1].breath_history[j].duration_ms, Lit(6000, 0)))
    /\ [][(AccelStep /\ engine'[1].breath_history # engine[1].breath_history) =>
            /\ engine[1].last_peak_time > 0
            /\ call'.timestamp_ms - engine[1].last_peak_time > 500
            /\ call'.timestamp_ms - engine[1].last_peak_time < 6000
            /\ OneCycleAppended(engine[1].breath_history, engine'[1].breath_history,
                                call'.timestamp_ms,
                                call'.timestamp_ms - engine[1].last_peak_time)]_vars
    /\ [][(AccelStep /\ call'.timestamp_ms < engine[1].last_peak_time) =>
            engine'[1].breath_history = engine[1].breath_history]_vars

\* a peak registered after the clock of the stream was set back: it is
\* stamped earlier than the last recorded breath, which is still that of
\* the time before
C19_Witness ==
    /\ script = "rewind" /\ call.op = "feed_accel"
    /\ engine[1].in_peak
    /\ engine[1].last_peak_time = call.timestamp_ms
    /\ engine[1].last_breath_time > call.timestamp_ms
    /\ Len(engine[1].breath_history) >= 5

\* the step registers a peak on engine 1: the peak time, the last breath
\* or the breath history changes
PeakRegistered ==
    \/ engine'[1].last_peak_time # engine[1].last_peak_time
    \/ engine'[1].last_breath_time # engine[1].last_breath_time
    \/ engine'[1].breath_history # engine[1].breath_history

\* the filtered sample f of the step is above the threshold tau of the step
AboveThreshold ==
    fgt(engine'[1].breathing_filter.y1, engine'[1].peak_threshold)

\* f < 0.8 * tau - 1e-6
BelowExit ==
    flt(engine'[1].breathing_filter.y1,
        fsub(fmul(engine'[1].peak_threshold, Lit(8, -1)), Lit(1, -6)))

\* C20: on the samples of a session the peak detector is a two-state
\* machine.  A sample registers a peak only if it finds the detector
\* quiescent and has f > tau, and then the detector is in_peak; a sample
\* that finds it in_peak registers nothing; and a sample takes it from
\* in_peak to quiescent only if f < 0.8 * tau - 1e-6.  So two peaks
\* registered in a session have a sample with the exit condition between
\* them.
C20_PeakStateMachine ==
    [][AccelStep =>
          /\ PeakRegistered =>
                ~engine[1].in_peak /\ AboveThreshold /\ engine'[1].in_peak
          /\ engine[1].in_peak => ~PeakRegistered
          /\ (engine[1].in_peak /\ ~engine'[1].in_peak) => BelowExit
          /\ (~engine[1].in_peak /\ engine'[1].in_peak) =>
                AboveThreshold /\ engine'[1].last_peak_time = call'.timestamp_ms]_vars

\* the detector has just entered in_peak and stored a cycle, the third of
\* the session, so it has left in_peak since the peak before
C20_Witness ==
    /\ script = "breath" /\ call.op = "feed_accel"
    /\ engine[1].in_peak
    /\ engine[1].last_peak_time = call.timestamp_ms
    /\ engine[1].last_breath_time = call.timestamp_ms
    /\ Len(engine[1].breath_history) = 3

\* the level below which the detector leaves in_peak, for the threshold tau
ExitLevel(tau) == fsub(fmul(tau, Lit(8, -1)), EPSILON)

\* C21: for every value the adaptive threshold takes (a number: the case of
\* a threshold that is not a number is left aside), the exit level
\* 0.8 * tau - 1e-6 lies below the entry level tau, and the filtered sample
\* that produced it does not satisfy both the entry condition f > tau and the
\* exit condition f < 0.8 * tau - 1e-6.
C21_HysteresisGap ==
    (/\ call.op = "feed_accel" /\ ValidSample(call.x, call.y, call.z)
     /\ ~IsNaN(engine[1].peak_threshold)) =>
        /\ flt(ExitLevel(engine[1].peak_threshold), engine[1].peak_threshold)
        /\ ~(/\ fgt(engine[1].breathing_filter.y1, engine[1].peak_threshold)
             /\ flt(engine[1].breathing_filter.y1,
                    ExitLevel(engine[1].peak_threshold)))

\* the step is an accepted accelerometer sample on which the detector of
\* engine 1 goes from quiescent to in_peak
EntersPeak == AccelStep /\ ~engine[1].in_peak /\ engine'[1].in_peak

\* the detector of engine 1 has entered in_peak in this session, the last
\* time at t1: start_session clears the peak time and the peak value, and an
\* entry stores both
PreviousEntryAt(t1) ==
    /\ engine[1].last_peak_time = t1
    /\ t1 > 0 \/ engine[1].last_peak_value # Zero

\* the entry of the step, at t2, stores the cycle t2 - t1
CycleStored(t1, t2) ==
    /\ OneCycleAppended(engine[1].breath_history, engine'[1].breath_history, t2, t2 - t1)
    /\ engine'[1].last_breath_time = t2

\* C22 as stated: an entry into in_peak at t2 whose previous entry in the
\* session was at t1, 500 < t2 - t1 < 6000, appends a breath cycle of
\* duration t2 - t1 and sets last_breath_time to t2, for every t1, 0 included.
C22_CycleOnEveryEntry ==
    [][\A t1 \in {engine[1].last_peak_time} : \A t2 \in {call'.timestamp_ms} :
          (EntersPeak /\ PreviousEntryAt(t1) /\ t2 - t1 > 500 /\ t2 - t1 < 6000)
              => CycleStored(t1, t2)]_vars

\* C22, amended: an entry into in_peak at t2 whose previous entry in the
\* session was at t1 > 0, 500 < t2 - t1 < 6000, appends a breath cycle of
\* duration t2 - t1 and sets last_breath_time to t2.
C22_CycleOnEntryAfterNonzero ==
    [][\A t1 \in {engine[1].last_peak_time} : \A t2 \in {call'.timestamp_ms} :
          (EntersPeak /\ PreviousEntryAt(t1) /\ t1 > 0
             /\ t2 - t1 > 500 /\ t2 - t1 < 6000)
              => CycleStored(t1, t2)]_vars

\* the first cycle of a session that started at sample 1 of the breath
\* stream: the second entry into in_peak, the first one having been at a
\* nonzero timestamp
C22_Witness ==
    /\ script = "breath" /\ sessions = 1 /\ call.op = "feed_accel"
    /\ engine[1].in_peak
    /\ Len(engine[1].breath_history) = 1
    /\ engine[1].breath_history[1].timestamp_ms = call.timestamp_ms
    /\ engine[1].last_breath_time = call.timestamp_ms
    /\ engine[1].last_peak_time = call.timestamp_ms

\* C23: every entry into in_peak sets last_peak_time and last_peak_value to
\* the timestamp and the filtered value of the sample, whether or not the
\* entry stored a breath cycle: also when the interval to the previous peak
\* is outside (500, 6000) and when the sample is stamped before it.
C23_PeakAlwaysRecorded ==
    [][EntersPeak =>
          /\ engine'[1].last_peak_time = call'.timestamp_ms
          /\ engine'[1].last_peak_value = engine'[1].breathing_filter.y1]_vars

\* an entry more than 6000 ms after the last recorded breath, hence after
\* the previous peak: it stores no cycle and is recorded as the last peak
C23_Witness ==
    /\ script = "pause" /\ call.op = "feed_accel"
    /\ engine[1].in_peak
    /\ engine[1].last_peak_time = call.timestamp_ms
    /\ engine[1].last_peak_value = engine[1].breathing_filter.y1
    /\ engine[1].last_breath_time > 0
    /\ call.timestamp_ms - engine[1].last_breath_time > 6000

\* the timestamp ts is within 5000 ms of the timestamp T
Near(ts, T) == ts - T <= 5000 /\ T - ts <= 5000

\* the samples of the window w0 stamped within 5000 ms of T are in w1
NearKept(w0, w1, T) ==
    \A ts \in Retained(w0) : Near(ts, T) => ts \in Retained(w1)

\* C24: a feed whose timestamp T is earlier than a timestamp retained in the
\* sensor's window evicts no retained sample stamped within 5000 ms of T.
C24_OutOfOrderTolerated ==
    [][\A T \in {call'.timestamp_ms} :
          /\ (call'.op = "feed_gyro"
                /\ \E ts \in Retained(engine[1].gyro_buffer) : T < ts)
             => NearKept(engine[1].gyro_buffer, engine'[1].gyro_buffer, T)
          /\ (call'.op = "feed_accel"
                /\ \E ts \in Retained(engine[1].accel_buffer) : T < ts)
             => NearKept(engine[1].accel_buffer, engine'[1].accel_buffer, T)]_vars

\* C25: a query at a time `now` not later than last_breath_time + 10000,
\* `now` earlier than last_breath_time included, reports possible_apnea = 0.
C25_NoApneaBeforeThreshold ==
    (/\ call.op = "get_metrics" /\ call.handle = 1 /\ call.out = 1
     /\ call.timestamp_ms <= engine[1].last_breath_time + APNEA_THRESHOLD_MS)
        => out_metrics[1].possible_apnea = 0

\* C26: in every state last_breath_time > 0 exactly when breath_history is
\* not empty, and then last_breath_time is the timestamp of the newest
\* cycle; and a query that reports possible_apnea = 1 reports
\* breath_cycles_detected >= 1.
C26_LastBreathIsNewestCycle ==
    /\ engine[1].last_breath_time > 0 <=> engine[1].breath_history # <<>>
    /\ engine[1].breath_history # <<>> =>
          engine[1].last_breath_time =
              engine[1].breath_history[Len(engine[1].breath_history)].timestamp_ms
    /\ (call.op = "get_metrics" /\ call.handle = 1 /\ call.out = 1
          /\ out_metrics[1].possible_apnea = 1)
       => out_metrics[1].breath_cycles_detected >= 1

\* a query during the pause of the stream pause: apnea is reported, with
\* the cycles recorded before the pause, the newest of them stamped
\* last_breath_time
C26_Witness ==
    /\ script = "pause" /\ call.op = "get_metrics" /\ call.out = 1
    /\ out_metrics[1].possible_apnea = 1
    /\ out_metrics[1].breath_cycles_detected >= 1
    /\ engine[1].last_breath_time =
           engine[1].breath_history[Len(engine[1].breath_history)].timestamp_ms
    /\ engine[1].last_breath_time < call.timestamp_ms

\* the rate the claim C27 gives for the breath history h: from the cycles
\* within 30000 ms of the newest one, 0 when they are fewer than 3
RateOfWindow(h) ==
    IF h = <<>> \/ RecentCount(h, h[Len(h)].timestamp_ms) < 3 THEN Zero
    ELSE RecentRate(h, RecentCount(h, h[Len(h)].timestamp_ms))

\* C27: the breathing rate is computed from the breath cycles within 30000
\* ms of the newest cycle, newest to oldest up to the first cycle outside
\* that window: it is 0 when fewer than 3 cycles lie in the window or their
\* mean duration is below 1e-6, and 60000 / mean duration otherwise.
C27_RateFromWindow ==
    /\ engine[1].current_bpm = RateOfWindow(engine[1].breath_history)
    /\ (call.op = "get_metrics" /\ call.handle = 1 /\ call.out = 1) =>
          out_metrics[1].breathing_rate_bpm = RateOfWindow(engine[1].breath_history)

\* the number of phase-velocity samples processed since the reset: every
\* accepted accelerometer sample of the session but the first
Velocities == IF fed = 0 THEN 0 ELSE fed - 1

\* the rolling window after n phase-velocity samples: 150 slots, the write
\* index n mod 150, min(n, 150) slots filled, the others zero
WindowShape(pm, n) ==
    /\ Len(pm.omega_buf) = MEMORY_SAMPLES
    /\ pm.omega_idx = n % MEMORY_SAMPLES
    /\ pm.omega_idx \in 0..(MEMORY_SAMPLES - 1)
    /\ pm.omega_count = IF n < MEMORY_SAMPLES THEN n ELSE MEMORY_SAMPLES
    /\ \A k \in (pm.omega_count + 1)..MEMORY_SAMPLES : pm.omega_buf[k] = Zero

\* the slots of the rolling window added up in index order
SlotSum(pm) == SumFrom(pm.omega_buf, 1, MEMORY_SAMPLES, Zero)

VelocityStep ==
    /\ AccelStep /\ ValidSample(call'.x, call'.y, call'.z)
    /\ engine[1].phase_memory.initialized

\* the running sum of pm1 is that of pm0 plus (new sample - outgoing slot),
\* the slot being the one at the write index of pm0
SumAdvanced(pm0, pm1) ==
    pm1.omega_sum = fadd(pm0.omega_sum,
                         fsub(pm1.omega_buf[pm0.omega_idx + 1],
                              pm0.omega_buf[pm0.omega_idx + 1]))

BootstrapStep ==
    /\ AccelStep /\ ValidSample(call'.x, call'.y, call'.z)
    /\ ~engine[1].phase_memory.initialized

\* C29: the first accepted accelerometer sample after open or start_session
\* only records the filtered sample as previous value and 0 as previous
\* phase: the instability score stays 0 and the rolling window (slots, sum,
\* index, filled count) and the baseline (buffer, count 0, not ready, sigma)
\* are left as the reset made them.
C29_BootstrapStep ==
    [][BootstrapStep =>
          /\ engine[1].phase_memory = PhaseMemoryReset
          /\ engine'[1].phase_memory =
                 [PhaseMemoryReset EXCEPT
                     !.prev_x = engine'[1].breathing_filter.y1,
                     !.prev_theta = Zero,
                     !.initialized = TRUE]
          /\ instabilityScore(engine'[1].phase_memory) = Zero
          /\ engine'[1].phase_memory.baseline_count = 0]_vars

\* the first sample of the second session of the breath stream: the filtered
\* sample, not zero, is recorded and nothing else of the operator has moved
C29_Witness ==
    /\ script = "breath" /\ sessions = 2 /\ fed = 1
    /\ call.op = "feed_accel"
    /\ engine[1].phase_memory.initialized
    /\ engine[1].phase_memory.prev_x = engine[1].breathing_filter.y1
    /\ engine[1].phase_memory.prev_x # Zero
    /\ engine[1].phase_memory.omega_count = 0
    /\ engine[1].phase_memory.baseline_count = 0
    /\ instabilityScore(engine[1].phase_memory) = Zero

\* C30: baseline_count counts the phase-velocity samples of the session up
\* to 250 and never exceeds 250; baseline_ready is true exactly from the
\* 250th phase-velocity sample of the session on; and baseline_ready goes
\* from true to false only by start_session.
C30_BaselineLatch ==
    /\ [](pc = "stream" =>
            /\ engine[1].phase_memory.baseline_count <= BASELINE_SAMPLES
            /\ engine[1].phase_memory.baseline_count =
                   (IF Velocities < BASELINE_SAMPLES THEN Velocities
                    ELSE BASELINE_SAMPLES)
            /\ engine[1].phase_memory.baseline_ready <=> Velocities >= BASELINE_SAMPLES)
    /\ [][(engine[1].phase_memory.baseline_ready
             /\ ~engine'[1].phase_memory.baseline_ready)
          => call'.op = "start_session"]_vars

\* the 250th phase-velocity sample of a second session: the latch closes on
\* the sample, with the baseline buffer full
C30_Witness ==
    /\ script = "breath" /\ sessions = 2
    /\ call.op = "feed_accel" /\ Velocities = BASELINE_SAMPLES
    /\ engine[1].phase_memory.baseline_ready
    /\ engine[1].phase_memory.baseline_count = BASELINE_SAMPLES

\* the call is a query of engine 1 that wrote its record
Query == call.op = "get_metrics" /\ call.handle = 1 /\ call.out = 1

\* C31: a query reports instability_detected = 1 exactly when baseline_ready
\* holds and the instability score it reports is strictly greater than
\* 2.0 * sigma_omega.
C31_InstabilityDecision ==
    Query =>
        (out_metrics[1].instability_detected = 1 <=>
            /\ engine[1].phase_memory.baseline_ready
            /\ fgt(out_metrics[1].instability_score,
                   fmul(Lit(2, 0), engine[1].phase_memory.sigma_omega)))

\* a query with a calibrated baseline that reports instability
C31_Witness ==
    /\ Query /\ pc = "stream"
    /\ engine[1].phase_memory.baseline_ready
    /\ out_metrics[1].instability_detected = 1
    /\ out_metrics[1].instability_score = engine[1].phase_memory.delta_phi

\* the step is an accelerometer sample the API accepts on engine 1
AcceptedAccelStep == AccelStep /\ ValidSample(call'.x, call'.y, call'.z)

\* the slots of the bandpass ring, and their squares, added up in index order
RingSum(e) == SumFrom(e.breathing_signal_buffer, 1, BUFFER_SIZE, Zero)
RingSumSquares(e) ==
    SumFrom([k \in 1..BUFFER_SIZE |->
                fmul(e.breathing_signal_buffer[k], e.breathing_signal_buffer[k])],
            1, BUFFER_SIZE, Zero)

\* the write index of the ring is in [0, 256) and the step advances it by one
\* modulo 256
RingIndexed(e) ==
    /\ Len(e.breathing_signal_buffer) = BUFFER_SIZE
    /\ e.buffer_index \in 0..(BUFFER_SIZE - 1)

RingAdvanced(e0, e1) == e1.buffer_index = (e0.buffer_index + 1) % BUFFER_SIZE

RingSumsAdvanced(e0, e1) ==
    /\ e1.breathing_signal_sum =
           fadd(e0.breathing_signal_sum,
                fsub(e1.breathing_signal_buffer[e0.buffer_index + 1],
                     e0.breathing_signal_buffer[e0.buffer_index + 1]))
    /\ e1.breathing_signal_sum_squares =
           fadd(e0.breathing_signal_sum_squares,
                fsub(fmul(e1.breathing_signal_buffer[e0.buffer_index + 1],
                          e1.breathing_signal_buffer[e0.buffer_index + 1]),
                     fmul(e0.breathing_signal_buffer[e0.buffer_index + 1],
                          e0.breathing_signal_buffer[e0.buffer_index + 1])))

MagnitudeSum(e) ==
    SumFrom(e.accel_magnitude_buffer, 1, Len(e.accel_magnitude_buffer), Zero)
MagnitudeSumSquares(e) ==
    SumFrom([k \in 1..Len(e.accel_magnitude_buffer) |->
                fmul(e.accel_magnitude_buffer[k], e.accel_magnitude_buffer[k])],
            1, Len(e.accel_magnitude_buffer), Zero)

\* the aggregates of e equal the sums over its accel-magnitude window
MagnitudesInSync(e) ==
    /\ e.accel_magnitude_sum = MagnitudeSum(e)
    /\ e.accel_magnitude_sum_squares = MagnitudeSumSquares(e)

InsertedAndEvicted(e0, e1, mag, p) ==
    /\ p \in 0..(Len(e0.accel_magnitude_buffer) + 1)
    /\ e1.accel_magnitude_buffer = DropFront(Append(e0.accel_magnitude_buffer, mag), p)
    /\ e1.accel_magnitude_sum =
           SubFrom(Append(e0.accel_magnitude_buffer, mag), 1, p,
                   fadd(e0.accel_magnitude_sum, mag))
    /\ e1.accel_magnitude_sum_squares =
           SubSqFrom(Append(e0.accel_magnitude_buffer, mag), 1, p,
                     fadd(e0.accel_magnitude_sum_squares, fmul(mag, mag)))

Parallel(e) ==
    /\ Len(e.accel_magnitude_buffer) = Len(e.accel_buffer)
    /\ \A i \in 1..Len(e.accel_magnitude_buffer) :
          i <= Len(e.accel_buffer) =>
              e.accel_magnitude_buffer[i] = magnitude(e.accel_buffer[i])

\* C34: after any sequence of start_session and feed_accel calls the
\* accel-magnitude window holds as many entries as the accel window, its
\* i-th entry is the magnitude of the i-th retained accel sample, and after
\* an accepted feed_accel the magnitude of the sample just ingested is its
\* newest entry.
C34_MagnitudeWindowParallel ==
    /\ Parallel(engine[1])
    /\ (call.op = "feed_accel" /\ call.handle = 1
            /\ ValidSample(call.x, call.y, call.z)) =>
          /\ Len(engine[1].accel_magnitude_buffer) > 0
          /\ engine[1].accel_magnitude_buffer[Len(engine[1].accel_magnitude_buffer)]
                = magnitude([x |-> call.x, y |-> call.y, z |-> call.z])

\* the aggregates and indices of e that a session restarts from zero
AggregatesZero(e) ==
    /\ e.accel_magnitude_sum = Zero
    /\ e.accel_magnitude_sum_squares = Zero
    /\ e.breathing_signal_sum = Zero
    /\ e.breathing_signal_sum_squares = Zero
    /\ e.buffer_index = 0
    /\ e.phase_memory.omega_sum = Zero
    /\ e.phase_memory.omega_idx = 0
    /\ e.phase_memory.omega_count = 0
    /\ e.phase_memory.baseline_count = 0

\* C35: immediately after start_session the accel-magnitude sum and sum of
\* squares, the band-pass ring's sum, sum of squares and write index, the
\* rolling window's sum, index and filled count, and the baseline count are
\* exactly zero.
C35_StartSessionZeroes ==
    (call.op = "start_session" /\ call.handle = 1) => AggregatesZero(engine[1])

\* the restart of the breath stream after 260 samples: the ring has wrapped,
\* the rolling window is full and the baseline is calibrated when
\* start_session is called
C35_Witness ==
    /\ script = "breath" /\ pos = 260 /\ sessions = 2
    /\ call.op = "start_session"
    /\ AggregatesZero(engine[1])

\* the samples a 5 s window holds at the nominal rate of 50 Hz
WindowSamples == 5000 \div 20 + 1

\* C36: on every input stream, streams whose timestamps repeat or do not
\* advance included, the gyro window, the accel window and the
\* accel-magnitude window hold no more than a fixed number of samples (here
\* the samples of 5 s at 50 Hz), and the breath history holds no more than
\* 120 cycles when the timestamps never decrease.
C36_FixedMemory ==
    /\ Len(engine[1].gyro_buffer) <= WindowSamples
    /\ Len(engine[1].accel_buffer) <= WindowSamples
    /\ Len(engine[1].accel_magnitude_buffer) <= WindowSamples
    /\ script # "rewind" => Len(engine[1].breath_history) <= 120

\* the reference classification of signal quality from the signal-to-noise
\* ratio, the number n of breath cycles and the regularity: the first rule
\* that applies, in this order
ReferenceQuality(snr, n, regularity) ==
    LET excellent == fgt(snr, Lit(5, 0)) /\ fgt(regularity, Lit(7, -1)) /\ n >= 20
        good      == fgt(snr, Lit(3, 0)) /\ fgt(regularity, Lit(5, -1)) /\ n >= 10
        fair      == fgt(snr, Lit(15, -1))
    IN  CASE n < 5 -> SIGNAL_QUALITY_UNKNOWN
          [] n >= 5 /\ excellent -> SIGNAL_QUALITY_EXCELLENT
          [] n >= 5 /\ ~excellent /\ good -> SIGNAL_QUALITY_GOOD
          [] n >= 5 /\ ~excellent /\ ~good /\ fair -> SIGNAL_QUALITY_FAIR
          [] OTHER -> SIGNAL_QUALITY_POOR

\* C37: the signal_quality a query reports is the reference classification
\* of the signal-to-noise ratio and the regularity it reports and of the
\* number of breath cycles in the history.
C37_SignalQuality ==
    Query =>
        /\ out_metrics[1].breath_cycles_detected = Len(engine[1].breath_history)
        /\ out_metrics[1].signal_noise_ratio = calculateSNR(engine[1].breath_history)
        /\ out_metrics[1].signal_quality =
              ReferenceQuality(out_metrics[1].signal_noise_ratio,
                               Len(engine[1].breath_history),
                               out_metrics[1].breathing_regularity)

\* a query of the stream jolt that reports POOR with five or more cycles:
\* every rule of the cascade was evaluated
C37_Witness ==
    /\ Query /\ script = "jolt"
    /\ Len(engine[1].breath_history) >= 10
    /\ out_metrics[1].signal_quality = SIGNAL_QUALITY_POOR
    /\ fgt(out_metrics[1].breathing_regularity, Lit(5, -1))

\* the reference cascade of sleep stages from the movement intensity, the
\* breathing regularity and the number n of breath cycles
ReferenceStage(movement, regularity, n) ==
    LET awake == fgt(movement, Lit(4, -1))
        deep  == flt(movement, Lit(5, -2)) /\ fgt(regularity, Lit(85, -2))
        rem   == flt(Lit(15, -2), movement) /\ flt(movement, Lit(35, -2))
    IN  CASE n < 5 -> UNKNOWN
          [] n >= 5 /\ awake -> AWAKE
          [] n >= 5 /\ ~awake /\ deep -> DEEP_SLEEP
          [] n >= 5 /\ ~awake /\ ~deep /\ rem -> REM_SLEEP
          [] OTHER -> LIGHT_SLEEP

\* C38: the current_stage a query reports is the reference cascade over the
\* movement intensity and the breathing regularity it reports and the
\* number of breath cycles in the history.
C38_SleepStage ==
    Query =>
        /\ out_metrics[1].movement_intensity =
              fmin(Lit(1, 0), fmul(engine[1].movement_variance, Lit(10, 0)))
        /\ out_metrics[1].breathing_regularity =
              calculateBreathingRegularity(engine[1].breath_history)
        /\ out_metrics[1].current_stage =
              ReferenceStage(out_metrics[1].movement_intensity,
                             out_metrics[1].breathing_regularity,
                             Len(engine[1].breath_history))

\* a query of the stream sway that reports REM: five cycles in the history
\* and a movement intensity between 0.15 and 0.35
C38_Witness ==
    /\ Query /\ script = "sway"
    /\ Len(engine[1].breath_history) >= 5
    /\ out_metrics[1].current_stage = REM_SLEEP
    /\ fgt(out_metrics[1].movement_intensity, Lit(15, -2))
    /\ flt(out_metrics[1].movement_intensity, Lit(35, -2))

=============================================================================
